---- MODULE Spec2Model ----
(***************************************************************************)
(* Model of the inference core of worker/agents/inferutils/core.ts:        *)
(* the recursive inference loop (infer / inferGeminiNative), the message   *)
(* sanitizer, the context update, the streaming tool-call accumulator and  *)
(* the classifier of failed requests; and of its caller selectTemplate     *)
(* (worker/agents/planning/templateSelector.ts).                           *)
(***************************************************************************)
EXTENDS Integers, Sequences, FiniteSets, TLC

VARIABLES
    pc,        \* position of the logical inference request
    args,      \* the caller-level parameters of infer (InferArgsBase + schema/format)
    ctx,       \* the ToolCallContext of the current round (toolCallContext parameter)
    resp,      \* content and tool calls of the response of the current round
    exec,      \* what the tool execution of the last round did
    result,    \* what the caller of infer receives
    sent,      \* the message list handed to the last upstream request
    netCalls,  \* number of upstream requests issued by this logical request
    limitCalls, \* number of calls of RateLimitService.enforceLLMCallsRateLimit
    startCtx,  \* the context the caller passed to the first round
    byIndex,   \* accumulator: index -> entry number
    byId,      \* accumulator: id -> entry number
    entries,   \* accumulator: the entry objects, by creation order
    frags,     \* accumulator: fragments consumed so far, each with the entry it went to
    assembled, \* accumulator: output of assembleToolCalls once the stream ended
    failure,   \* the failed upstream request being classified (error object / response)
    sel,       \* selectTemplate: its arguments, position, inference calls and outcome
    cfg,       \* getConfigurationForModel: its inputs and the configuration it resolved
    sink,      \* streamed content: events consumed, accumulated text, chunks given to onChunk
    bp,        \* normalizeBlueprintData: the raw value and its repaired forms
    chain,     \* a context, the context it was derived from, and the rounds between them
    comp       \* ensureCompliance: the inference it started, its deadline timer, its return

inferVars == <<args, ctx, resp, exec, result, sent, netCalls, limitCalls, startCtx>>
accVars == <<byIndex, byId, entries, frags, assembled>>
selVars == <<sel>>
moreVars == <<chain, comp>>
auxVars == <<cfg, sink, bp, chain, comp>>
vars == <<pc, args, ctx, resp, exec, result, sent, netCalls, limitCalls, startCtx,
          byIndex, byId, entries, frags, assembled, failure, sel, cfg, sink, bp, chain, comp>>

----------------------------------------------------------------------------
(* Bounds of the model *)

\* largest number of tool calls in one model response
MaxCalls == 2
\* largest depth of a context handed in by the caller
MaxInitDepth == 2
\* largest number of fragments in one streamed response
MaxFrags == 3

----------------------------------------------------------------------------
(* Data *)

Min(a, b) == IF a < b THEN a ELSE b

\* AgentActionKey values used by the model
ActionKeys == {"templateSelection", "conversationalResponse"}

\* getMaxToolCallingDepth lives in ../constants; the loop only needs it to be
\* a positive number per action key.
getMaxToolCallingDepth(actionKey) ==
    IF actionKey = "conversationalResponse" THEN 2 ELSE 1

\* MAX_LLM_MESSAGES lives in ../constants; scaled down here.
MAX_LLM_MESSAGES == 2

Providers == {"openai", "google-ai-studio"}

\* PROVIDER_CAPABILITIES / requiresNativeInference
requiresNativeInference(provider) == provider = "google-ai-studio"

ToolNames == {"search", "mark_complete"}

Message(role, content, hasCalls, calls, name, id, fmt) ==
    [role |-> role, content |-> content, hasCalls |-> hasCalls, calls |-> calls,
     name |-> name, id |-> id, fmt |-> fmt]

UserMessage(content) == Message("user", content, FALSE, <<>>, "", "", FALSE)

\* { role: "assistant", content, tool_calls: toolCalls }
AssistantMessage(content, toolCalls) ==
    Message("assistant", content, TRUE, toolCalls, "", "", FALSE)

ToolCall(id, name) == [id |-> id, name |-> name]

NoSignal == [set |-> FALSE, signaled |-> FALSE, toolName |-> "", summary |-> ""]

NoCtx == [has |-> FALSE, messages |-> <<>>, depth |-> 0, signal |-> NoSignal,
          warningInjected |-> FALSE]

Context(messages, depth, signal, warningInjected) ==
    [has |-> TRUE, messages |-> messages, depth |-> depth, signal |-> signal,
     warningInjected |-> warningInjected]

\* selectTemplate is not running
NoSel == [pc |-> "idle", projectType |-> "app", templates |-> <<>>, retryCount |-> 0,
          attempts |-> 0, calls |-> 0, thrown |-> "none", actual |-> "app",
          outcome |-> "pending"]

\* the parts of the model that take no part in the running specification
NoConfig == [pc |-> "idle"]
NoSink == [pc |-> "idle"]
NoBlueprint == [pc |-> "idle"]
NoChain == [pc |-> "idle"]
NoCompliance == [pc |-> "idle"]

MoreIdle ==
    /\ chain = NoChain
    /\ comp = NoCompliance

AuxIdle ==
    /\ cfg = NoConfig
    /\ sink = NoSink
    /\ bp = NoBlueprint
    /\ MoreIdle

\* the base conversation of the caller: n user messages
BaseMessages(n) == [i \in 1..n |-> UserMessage("hi")]

----------------------------------------------------------------------------
(* Message sanitizer: infer, lines 803-887 *)

\* optimizeTextContent on the content tokens of the model: trailing
\* whitespace is removed, everything else is kept
optimizeTextContent(content) ==
    IF content = "hi " THEN "hi" ELSE content

optimizeInputs(messages) ==
    [i \in DOMAIN messages |->
        [messages[i] EXCEPT !.content = optimizeTextContent(messages[i].content)]]

CallIdSet(calls) == {calls[i].id : i \in DOMAIN calls}

\* ctxMessages.filter(...) with the running validToolCallIds set
RECURSIVE filterOrphans(_, _)
filterOrphans(msgs, validToolCallIds) ==
    IF msgs = <<>> THEN <<>>
    ELSE LET msg == Head(msgs) IN
         IF msg.role = "assistant" /\ msg.hasCalls
         THEN <<msg>> \o filterOrphans(Tail(msgs), CallIdSet(msg.calls))
         ELSE IF msg.role = "tool"
                 /\ (msg.name = "" \/ msg.id = "" \/ msg.id \notin validToolCallIds)
         THEN filterOrphans(Tail(msgs), validToolCallIds)
         ELSE <<msg>> \o filterOrphans(Tail(msgs), validToolCallIds)

\* msg.tool_calls = msg.tool_calls.filter(tc => tc.id); undefined when empty
stripEmptyCalls(msg) ==
    IF msg.role = "assistant" /\ msg.hasCalls
    THEN LET kept == SelectSeq(msg.calls, LAMBDA tc : tc.id # "")
         IN  [msg EXCEPT !.calls = kept, !.hasCalls = (kept # <<>>)]
    ELSE msg

stripAll(msgs) == [i \in DOMAIN msgs |-> stripEmptyCalls(msgs[i])]

\* the last message is replaced by { role, content + format instructions }
appendFormat(msgs) ==
    IF msgs = <<>> THEN msgs
    ELSE LET last == msgs[Len(msgs)] IN
         SubSeq(msgs, 1, Len(msgs) - 1)
            \o <<Message(last.role, last.content, FALSE, <<>>, "", "", TRUE)>>

\* forcedFormat: Claude and DeepSeek get prompt instructions for structured output
forcedFormat(a) ==
    LET needsStructuredOutput == a.schema /\ ~a.format
    IN  IF a.provider = "anthropic" /\ needsStructuredOutput THEN TRUE
        ELSE IF a.provider = "deepseek" /\ needsStructuredOutput THEN TRUE
        ELSE a.format

messagesToPass(a, context) ==
    LET optimizedMessages == optimizeInputs(BaseMessages(a.nmsgs))
        withCtx == IF context.has
                   THEN optimizedMessages \o stripAll(filterOrphans(context.messages, {}))
                   ELSE optimizedMessages
    IN  IF forcedFormat(a) THEN appendFormat(withCtx) ELSE withCtx

\* the in-place edit of the context's assistant messages (lines 834-842)
sanitizedContext(context) ==
    IF context.has THEN [context EXCEPT !.messages = stripAll(context.messages)]
    ELSE context

----------------------------------------------------------------------------
(* Tool execution and context update *)

CompletionTool == "mark_complete"

\* CompletionDetector.isCompletionTool (./completionDetection)
isCompletionTool(name) == name = CompletionTool

ResultValues == {"undefined", "value"}
Summaries == {"", "all done"}

ToolCallResult(tc, value, summary) ==
    [id |-> tc.id, name |-> tc.name, result |-> value, summary |-> summary]

\* result.result ? ... : ... -- undefined and falsy values count as no result
Truthy(value) == value \notin {"undefined", "0"}

RECURSIVE SelectIdx(_, _, _)
SelectIdx(seq, S, i) ==
    IF i > Len(seq) THEN <<>>
    ELSE (IF i \in S THEN <<seq[i]>> ELSE <<>>) \o SelectIdx(seq, S, i + 1)

\* executeToolCallsWithDependencies (./toolExecution): one result per request,
\* a failed call has no result value; a cancelled batch throws AbortError
\* after some of its calls completed.
ExecOutcomes(toolCalls) ==
    LET n == Len(toolCalls)
        full == { f \in [1..n -> ResultValues \X Summaries] :
                    \A i \in 1..n : ~isCompletionTool(toolCalls[i].name) => f[i][2] = "" }
        done(S) == SelectIdx([i \in 1..n |-> ToolCallResult(toolCalls[i], "value", "")], S, 1)
    IN  { [threw |-> "none",
           results |-> [i \in 1..n |-> ToolCallResult(toolCalls[i], f[i][1], f[i][2])]]
            : f \in full }
        \cup { [threw |-> "abort", results |-> done(S)] : S \in (SUBSET (1..n)) \ {1..n} }
        \cup (IF n > 0 THEN {[threw |-> "error", results |-> <<>>]} ELSE {})

\* CompletionDetector.detectCompletion (./completionDetection): the first
\* result of a completion tool wins
RECURSIVE detectCompletion(_)
detectCompletion(executed) ==
    IF executed = <<>> THEN NoSignal
    ELSE IF isCompletionTool(Head(executed).name)
    THEN [set |-> TRUE, signaled |-> TRUE, toolName |-> Head(executed).name,
          summary |-> Head(executed).summary]
    ELSE detectCompletion(Tail(executed))

ToolMessage(r) ==
    Message("tool", IF Truthy(r.result) THEN "json" ELSE "done", FALSE, <<>>,
            r.name, r.id, FALSE)

toolMessages(executed) ==
    LET named == SelectSeq(executed, LAMBDA r : r.name # "")
    IN  [i \in DOMAIN named |-> ToolMessage(named[i])]

nextSignalOverwrites(context, executed, hasDetector) ==
    IF hasDetector THEN detectCompletion(executed) ELSE context.signal

\* completionSignal of the new context (lines 524-528)
nextSignal(context, executed, hasDetector) ==
    IF hasDetector /\ ~context.signal.set THEN detectCompletion(executed)
    ELSE context.signal

updateKeepsDepth(context, assistantMessage, executed, hasDetector) ==
    Context(context.messages \o <<assistantMessage>> \o toolMessages(executed),
            context.depth,
            nextSignal(context, executed, hasDetector),
            context.warningInjected)

updateDropsHistory(context, assistantMessage, executed, hasDetector) ==
    Context(<<assistantMessage>> \o toolMessages(executed),
            context.depth + 1,
            nextSignal(context, executed, hasDetector),
            context.warningInjected)

updateToolCallContext(context, assistantMessage, executed, hasDetector) ==
    Context(context.messages \o <<assistantMessage>> \o toolMessages(executed),
            context.depth + 1,
            nextSignal(context, executed, hasDetector),
            context.warningInjected)

----------------------------------------------------------------------------
(* The recursive inference loop *)

\* what infer hands to its caller: a returned value or a thrown error;
\* retryDelayMs is 0 where the error carries none
Result(kind, text, context) ==
    [kind |-> kind, text |-> text, ctx |-> context, retryDelayMs |-> 0]
Pending == Result("pending", "", NoCtx)

\* new RateLimitExceededError(message, RateLimitType.LLM_CALLS, undefined, retryDelayMs)
RateLimited(text, retryDelayMs) ==
    [kind |-> "RateLimitExceededError", text |-> text, ctx |-> NoCtx,
     retryDelayMs |-> retryDelayMs]

\* the response of a round; valid tells whether its text parses and passes
\* the caller's schema (FALSE without a schema)
NoResp == [received |-> FALSE, content |-> "", toolCalls |-> <<>>, valid |-> FALSE]
Response(content, toolCalls, valid) ==
    [received |-> TRUE, content |-> content, toolCalls |-> toolCalls, valid |-> valid]

\* empty text never parses, other text may or may not pass the schema
Validities(a, content) == IF a.schema /\ content # "" THEN BOOLEAN ELSE {FALSE}
NoExec == [ran |-> FALSE, threw |-> "none", completed |-> <<>>, executed |-> <<>>,
           newCtx |-> NoCtx]

MaxDepthNotice == "[System: Maximum tool calling depth reached.]"
MaxDepthError == "Maximum tool calling depth exceeded"
UserCancelled == "**User cancelled inference**"

\* completionSignal.summary || 'Task complete'
summaryOrDefault(signal) ==
    IF signal.summary # "" THEN signal.summary ELSE "Task complete"

CompletionError(signal) == "Completion signaled: " \o summaryOrDefault(signal)

Contents == {"", "text"}

CallId(i) == "call_" \o ToString(i)

\* the tools a caller registers: the completion tool comes with a detector
toolsOf(a) ==
    IF ~a.tools THEN {}
    ELSE IF a.detector THEN ToolNames ELSE ToolNames \ {CompletionTool}

NamedCalls(names, first, n) == { [i \in 1..n |-> ToolCall(CallId(first + i - 1), f[i])] : f \in [1..n -> names] }

\* the tool calls a chat-completion response can carry: at most MaxCalls
\* calls of registered tools, ids given by the provider, possibly after a
\* call that was announced but never named
ResponseCalls(a) ==
    UNION { NamedCalls(toolsOf(a), 1, n) : n \in 0..MaxCalls }
    \cup UNION { { <<ToolCall(CallId(1), "")>> \o l : l \in NamedCalls(toolsOf(a), 2, n) }
                  : n \in 0..1 }

\* tc.function.name && tc.function.name.trim() !== ''
namedCalls(toolCalls) == SelectSeq(toolCalls, LAMBDA tc : tc.name # "")

ArgsSet ==
    { a \in [provider : Providers, schema : BOOLEAN, format : BOOLEAN, stream : BOOLEAN,
             tools : BOOLEAN, detector : BOOLEAN, actionKey : ActionKeys,
             nmsgs : {1, MAX_LLM_MESSAGES + 1}, runtimeOverrides : BOOLEAN] :
        /\ a.format => a.schema
        /\ a.detector => a.tools
        \* the native path reads neither format nor stream nor runtimeOverrides
        /\ requiresNativeInference(a.provider)
            => ~a.format /\ ~a.stream /\ ~a.runtimeOverrides
        /\ a.stream => ~a.schema }

DoneSignal == [set |-> TRUE, signaled |-> TRUE, toolName |-> CompletionTool,
               summary |-> "earlier"]

\* a signal object that is present but not signaled
IdleSignal == [set |-> TRUE, signaled |-> FALSE, toolName |-> "", summary |-> ""]

\* message histories a caller can hand in with a prior context
Histories ==
    { <<>>,
      <<AssistantMessage("text", <<ToolCall("call_1", "search")>>),
        Message("tool", "json", FALSE, <<>>, "search", "call_1", FALSE)>>,
      <<AssistantMessage("", <<ToolCall("", "search")>>),
        Message("tool", "json", FALSE, <<>>, "search", "call_9", FALSE)>> }

InitContexts ==
    {NoCtx}
    \cup { Context(<<>>, d, NoSignal, FALSE) : d \in 0..MaxInitDepth }
    \cup { Context(h, d, NoSignal, FALSE) : h \in Histories \ {<<>>}, d \in 1..MaxInitDepth }
    \cup { Context(h, 1, DoneSignal, FALSE) : h \in Histories \ {<<>>} }
    \cup { Context(<<>>, 0, IdleSignal, FALSE) }

----------------------------------------------------------------------------
(* Rate-limit and transport error classifier *)

\* longest Retry-After header value
MaxHeaderLen == 3
\* longest retryDelay string of a RetryInfo detail
MaxDelayLen == 2

\* characters of header values and of retryDelay strings
Chars == {"0", "1", "2", ".", "s"}
Digits == {"0", "1", "2"}

DigitVal(c) == CASE c = "0" -> 0 [] c = "1" -> 1 [] OTHER -> 2

Strings(n) == UNION { [1..k -> Chars] : k \in 0..n }

\* a JavaScript number as an exact fraction num / den, or NaN
NaN == [nan |-> TRUE, num |-> 0, den |-> 1]
Number(num, den) == [nan |-> FALSE, num |-> num, den |-> den]

RECURSIVE Pow10(_)
Pow10(n) == IF n = 0 THEN 1 ELSE 10 * Pow10(n - 1)

\* number of digit characters of str from position i on
RECURSIVE DigitRun(_, _)
DigitRun(str, i) ==
    IF i > Len(str) \/ str[i] \notin Digits THEN 0 ELSE 1 + DigitRun(str, i + 1)

\* value of the n digits of str from position i on
RECURSIVE DecimalValue(_, _, _, _)
DecimalValue(str, i, n, acc) ==
    IF n = 0 THEN acc ELSE DecimalValue(str, i + 1, n - 1, 10 * acc + DigitVal(str[i]))

\* parseFloat: the longest decimal prefix (digits, an optional point and
\* digits); NaN when the string starts with no digit
parseFloat(str) ==
    LET ni == DigitRun(str, 1)
        hasPoint == ni < Len(str) /\ str[ni + 1] = "."
        nf == IF hasPoint THEN DigitRun(str, ni + 2) ELSE 0
    IN  IF ni + nf = 0 THEN NaN
        ELSE Number(DecimalValue(str, 1, ni, 0) * Pow10(nf)
                        + DecimalValue(str, ni + 2, nf, 0),
                    Pow10(nf))

\* delayValue.replace(/s$/, '')
stripSecondsSuffix(str) ==
    IF Len(str) > 0 /\ str[Len(str)] = "s" THEN SubSeq(str, 1, Len(str) - 1) ELSE str

\* Math.ceil(seconds * 1000)
ceilMs(seconds) == (seconds.num * 1000 + seconds.den - 1) \div seconds.den

\* a JavaScript value that is undefined (or null), a string or a number
Undefined == [type |-> "undefined", str |-> <<>>, n |-> NaN]
Str(str) == [type |-> "string", str |-> str, n |-> NaN]
Num(n) == [type |-> "number", str |-> <<>>, n |-> n]

\* the value passes an if (...) test
IsTruthy(v) ==
    CASE v.type = "string" -> v.str # <<>>
      [] v.type = "number" -> ~v.n.nan /\ v.n.num # 0
      [] OTHER -> FALSE

\* numbers a provider can send: 0, 12 and 1.5001
NumberValues == {Number(0, 1), Number(12, 1), Number(15001, 10000)}

\* the error body: whether it is JSON and the retryDelay of its RetryInfo
\* detail (Undefined when there is no such detail)
Body(json, retryDelay) == [json |-> json, retryDelay |-> retryDelay]
NoBody == Body(FALSE, Undefined)

\* a failed upstream request; status, responseStatus and statusCode are 0
\* where the error object has no such property
Failure(abortLike, status, responseStatus, statusCode, header, body) ==
    [abortLike |-> abortLike, status |-> status, responseStatus |-> responseStatus,
     statusCode |-> statusCode, header |-> header, body |-> body]

NoFailure == Failure(FALSE, 0, 0, 0, Undefined, NoBody)

\* error.status || error.response?.status || error.statusCode
errorStatus(error) ==
    IF error.status # 0 THEN error.status
    ELSE IF error.responseStatus # 0 THEN error.responseStatus
    ELSE error.statusCode

DefaultRetryDelayMs == 60000

\* infer, lines 945-960: the delay of a 429 on the standard path
retryDelayMs(error) ==
    LET retryAfterHeader == error.header
        retryAfterSeconds == IF retryAfterHeader.type = "string"
                             THEN parseFloat(retryAfterHeader.str)
                             ELSE retryAfterHeader.n
    IN  IF IsTruthy(retryAfterHeader) /\ ~retryAfterSeconds.nan /\ retryAfterSeconds.num > 0
        THEN ceilMs(retryAfterSeconds)
        ELSE DefaultRetryDelayMs

abortFirstSkipped(error, context) ==
    IF errorStatus(error) = 429
    THEN RateLimited("API rate limit exceeded", retryDelayMs(error))
    ELSE IF error.abortLike THEN Result("AbortError", UserCancelled, context)
    ELSE Result("Error", "transport", NoCtx)

\* infer, lines 928-973: the catch around client.chat.completions.create
classifyNetworkError(error, context) ==
    IF error.abortLike THEN Result("AbortError", UserCancelled, context)
    ELSE IF errorStatus(error) = 429
    THEN RateLimited("API rate limit exceeded", retryDelayMs(error))
    ELSE Result("Error", "transport", NoCtx)

GeminiDefaultSeconds == Number(34, 1)

\* inferGeminiNative, lines 1335-1364: the delay the try block computes
geminiRetryDelaySeconds(res) ==
    IF IsTruthy(res.header)
    THEN LET parsed == parseFloat(res.header.str)
         IN  IF ~parsed.nan /\ parsed.num > 0 THEN parsed ELSE GeminiDefaultSeconds
    ELSE IF IsTruthy(res.body.retryDelay)
    THEN LET delayValue == res.body.retryDelay
             retryDelaySeconds == IF delayValue.type = "string"
                                  THEN parseFloat(stripSecondsSuffix(delayValue.str))
                                  ELSE delayValue.n
         IN  IF retryDelaySeconds.nan \/ retryDelaySeconds.num <= 0
             THEN GeminiDefaultSeconds ELSE retryDelaySeconds
    ELSE GeminiDefaultSeconds

\* inferGeminiNative, lines 1331-1371: the try block ends in a throw, of
\* JSON.parse or of the RateLimitExceededError it builds
geminiTryBlock(res) ==
    IF ~res.body.json THEN [thrown |-> "SyntaxError", retryDelayMs |-> 0]
    ELSE [thrown |-> "RateLimitExceededError",
          retryDelayMs |-> ceilMs(geminiRetryDelaySeconds(res))]

\* inferGeminiNative, lines 1307-1383: fetch rejected or a non-ok status.
\* Whatever the try block throws is caught by catch (parseError), which
\* throws the error with the 34 s default.
classifyGeminiFailure(res, context) ==
    IF res.abortLike THEN Result("Error", "fetch aborted", NoCtx)
    ELSE IF res.status = 429
    THEN CASE geminiTryBlock(res).thrown = "SyntaxError" ->
                RateLimited("Gemini API rate limit exceeded", 34000)
           [] geminiTryBlock(res).thrown = "RateLimitExceededError" ->
                RateLimited("Gemini API rate limit exceeded", 34000)
    ELSE Result("Error", "Gemini API error", NoCtx)

\* values of the Retry-After header and of retryDelay
HeaderValues ==
    {Undefined} \cup {Str(str) : str \in Strings(MaxHeaderLen)}
        \cup {Num(n) : n \in NumberValues}
DelayValues ==
    {Undefined} \cup {Str(str) : str \in Strings(MaxDelayLen)}
        \cup {Num(n) : n \in NumberValues}
Bodies == {NoBody} \cup {Body(TRUE, d) : d \in DelayValues}

\* failures of the chat-completions request, as the SDK throws them
StandardFailures ==
    { Failure(FALSE, 429, 0, 0, h, b) : h \in HeaderValues, b \in Bodies }
    \cup { Failure(a, st[1], st[2], st[3], h, NoBody) :
            a \in BOOLEAN,
            st \in {<<0, 0, 0>>, <<429, 0, 0>>, <<0, 429, 0>>, <<0, 0, 429>>, <<500, 0, 0>>},
            h \in {Undefined, Str(<<"1", "2">>)} }

\* failures of the native request: fetch rejects on abort, or the response
\* has a non-ok status; Headers.get gives a string or null
GeminiFailures ==
    { Failure(FALSE, 429, 0, 0, h, b) :
        h \in {v \in HeaderValues : v.type # "number"}, b \in Bodies }
    \cup { Failure(TRUE, 0, 0, 0, Undefined, NoBody),
           Failure(FALSE, 500, 0, 0, Undefined, NoBody) }

\* the failures the loop model draws from
LoopFailures ==
    { Failure(a, st, 0, 0, h, NoBody) :
        a \in BOOLEAN, st \in {0, 429}, h \in {Undefined, Str(<<"1", "2">>)} }
GeminiLoopFailures ==
    { Failure(TRUE, 0, 0, 0, Undefined, NoBody),
      Failure(FALSE, 500, 0, 0, Undefined, NoBody),
      Failure(FALSE, 429, 0, 0, Str(<<"1", "2">>), NoBody),
      Failure(FALSE, 429, 0, 0, Undefined, Body(TRUE, Str(<<"2", "s">>))) }

----------------------------------------------------------------------------
(* The standard path: infer *)

InferInit ==
    /\ pc = "infer"
    /\ args \in ArgsSet
    /\ ctx \in InitContexts
    /\ startCtx = ctx
    /\ resp = NoResp
    /\ exec = NoExec
    /\ result = Pending
    /\ sent = <<>>
    /\ netCalls = 0
    /\ limitCalls = 0
    /\ failure = NoFailure
    /\ sel = NoSel
    /\ AuxIdle

Finish(r) ==
    /\ pc' = "done"
    /\ result' = r

depthGuardOffByOne(a, context) == context.depth > getMaxToolCallingDepth(a.actionKey)

\* the depth guard shared by infer (681-693) and inferGeminiNative (1256-1267)
depthGuard(a, context) == context.depth >= getMaxToolCallingDepth(a.actionKey)

depthResult(a, context) ==
    IF a.schema THEN Result("AbortError", MaxDepthError, context)
    ELSE Result("string", MaxDepthNotice, context)

\* infer, lines 677-926: the entry checks, routing, the rate-limit
\* bookkeeping, the sanitizer and the upstream request
InferEnter ==
    /\ pc = "infer"
    /\ IF args.nmsgs > MAX_LLM_MESSAGES
       THEN /\ Finish(Result("RateLimitExceededError", "Message limit exceeded", NoCtx))
            /\ UNCHANGED <<ctx, sent, netCalls, limitCalls>>
       ELSE IF depthGuard(args, ctx)
       THEN /\ Finish(depthResult(args, ctx))
            /\ UNCHANGED <<ctx, sent, netCalls, limitCalls>>
       ELSE IF requiresNativeInference(args.provider)
       THEN /\ pc' = "native"
            /\ UNCHANGED <<result, ctx, sent, netCalls, limitCalls>>
       ELSE \E allowed \in BOOLEAN :
            IF ~allowed
            THEN /\ Finish(Result("RateLimitExceededError", "LLM calls rate limit", NoCtx))
                 /\ limitCalls' = limitCalls + 1
                 /\ UNCHANGED <<ctx, sent, netCalls>>
            ELSE /\ limitCalls' = limitCalls + 1
                 /\ sent' = messagesToPass(args, ctx)
                 /\ ctx' = sanitizedContext(ctx)
                 /\ netCalls' = netCalls + 1
                 /\ pc' = "net"
                 /\ UNCHANGED result
    /\ UNCHANGED <<args, resp, exec, startCtx>>
    /\ UNCHANGED accVars
    /\ UNCHANGED <<failure, sel>>
    /\ UNCHANGED auxVars

\* infer, lines 928-973: the request failed
InferNetworkError ==
    /\ pc = "net"
    /\ \E error \in LoopFailures :
        /\ failure' = error
        /\ Finish(classifyNetworkError(error, ctx))
    /\ UNCHANGED <<args, ctx, resp, exec, sent, netCalls, limitCalls, startCtx>>
    /\ UNCHANGED accVars
    /\ UNCHANGED selVars
    /\ UNCHANGED auxVars

\* response instanceof Stream: a streaming request can be answered by a
\* plain ChatCompletion (lines 983, 1048-1057)
ResponseKinds(a) == IF a.stream THEN BOOLEAN ELSE {FALSE}

\* the tool calls taken from the response: calls without a name are
\* dropped from a stream (1021-1025) and from the answer to a non-streaming
\* request (1062-1067), not from a ChatCompletion that answers a streaming
\* request (1056)
receivedToolCalls(a, isStream, calls) ==
    IF a.stream /\ ~isStream THEN calls ELSE namedCalls(calls)

\* infer, lines 974-1094: the response is read, nameless tool calls are
\* dropped, an empty non-streamed turn ends the call, tools are started
InferResponse ==
    /\ pc = "net"
    /\ \E content \in Contents, calls \in ResponseCalls(args) :
        \E valid \in Validities(args, content), isStream \in ResponseKinds(args) :
        LET toolCalls == receivedToolCalls(args, isStream, calls) IN
        IF content = "" /\ ~args.stream /\ toolCalls = <<>>
        THEN /\ Finish(Result("string", "", ctx))
             /\ resp' = Response(content, toolCalls, valid)
        ELSE /\ resp' = Response(content, toolCalls, valid)
             /\ pc' = "tools"
             /\ UNCHANGED result
    /\ UNCHANGED <<args, ctx, exec, sent, netCalls, limitCalls, startCtx>>
    /\ UNCHANGED accVars
    /\ UNCHANGED <<failure, sel>>
    /\ UNCHANGED auxVars

usableResults(executed, hasDetector) ==
    SelectSeq(executed, LAMBDA r :
        r.result # "undefined" /\ ~(hasDetector /\ isCompletionTool(r.name)))

finalResultNeverRaises(a, content, context, valid) ==
    IF ~a.schema THEN Result("string", content, context)
    ELSE IF valid THEN Result("object", content, context)
    ELSE Result("string", content, context)

\* the terminal step of a round without executed tool calls (1188-1217)
finalResult(a, content, context, valid) ==
    IF ~a.schema THEN Result("string", content, context)
    ELSE IF valid THEN Result("object", content, context)
    ELSE Result("InferError", content, context)

\* what a signaled round hands to the caller (1118-1131)
completionResult(a, content, newCtx) ==
    IF a.schema THEN Result("AbortError", CompletionError(newCtx.signal), newCtx)
    ELSE Result("string",
                IF content # "" THEN content ELSE summaryOrDefault(newCtx.signal),
                newCtx)

\* the parameters of the recursive call (1142-1179): every parameter of
\* the round is passed on except runtimeOverrides, which is left out
recursiveArgs(a) == [a EXCEPT !.runtimeOverrides = FALSE]

\* infer, lines 1090-1217: tool execution came back (or threw)
InferTools ==
    /\ pc = "tools"
    /\ \E o \in (IF args.tools THEN ExecOutcomes(resp.toolCalls)
                 ELSE {[threw |-> "none", results |-> <<>>]}) :
        LET assistantMessage == AssistantMessage(resp.content, resp.toolCalls)
            executed == IF o.threw = "none" THEN o.results ELSE <<>>
            newCtx == updateToolCallContext(ctx, assistantMessage, executed, args.detector)
        IN  /\ exec' = [ran |-> args.tools, threw |-> o.threw, completed |-> o.results,
                        executed |-> executed,
                        newCtx |-> IF o.threw = "abort" \/ executed # <<>> THEN newCtx ELSE ctx]
            /\ IF o.threw = "abort"
               THEN /\ Finish(Result("string", resp.content, newCtx))
                    /\ UNCHANGED <<ctx, args>>
               ELSE IF executed # <<>>
               THEN IF newCtx.signal.signaled
                    THEN /\ Finish(completionResult(args, resp.content, newCtx))
                         /\ UNCHANGED <<ctx, args>>
                    ELSE IF usableResults(executed, args.detector) # <<>>
                    THEN /\ pc' = "infer"
                         /\ ctx' = newCtx
                         /\ args' = recursiveArgs(args)
                         /\ UNCHANGED result
                    ELSE /\ Finish(Result("string", resp.content, newCtx))
                         /\ UNCHANGED <<ctx, args>>
               ELSE /\ Finish(finalResult(args, resp.content, ctx, resp.valid))
                    /\ UNCHANGED <<ctx, args>>
    /\ UNCHANGED <<resp, sent, netCalls, limitCalls, startCtx>>
    /\ UNCHANGED accVars
    /\ UNCHANGED <<failure, sel>>
    /\ UNCHANGED auxVars

----------------------------------------------------------------------------
(* The native path: inferGeminiNative *)

\* inferGeminiNative, lines 1256-1324: depth guard, credential, the prompt
\* built from the base conversation, the upstream request
NativeEnter ==
    /\ pc = "native"
    /\ IF depthGuard(args, ctx)
       THEN /\ Finish(depthResult(args, ctx))
            /\ UNCHANGED <<sent, netCalls>>
       ELSE \E hasKey \in BOOLEAN :
            IF ~hasKey
            THEN /\ Finish(Result("Error", "Missing GOOGLE_AI_STUDIO_API_KEY", NoCtx))
                 /\ UNCHANGED <<sent, netCalls>>
            ELSE /\ sent' = BaseMessages(args.nmsgs)
                 /\ netCalls' = netCalls + 1
                 /\ pc' = "nnet"
                 /\ UNCHANGED result
    /\ UNCHANGED <<args, ctx, resp, exec, limitCalls, startCtx>>
    /\ UNCHANGED accVars
    /\ UNCHANGED <<failure, sel>>
    /\ UNCHANGED auxVars

\* inferGeminiNative, lines 1307-1384: fetch rejected or a non-ok status
NativeNetworkError ==
    /\ pc = "nnet"
    /\ \E res \in GeminiLoopFailures :
        /\ failure' = res
        /\ Finish(classifyGeminiFailure(res, ctx))
    /\ UNCHANGED <<args, ctx, resp, exec, sent, netCalls, limitCalls, startCtx>>
    /\ UNCHANGED accVars
    /\ UNCHANGED selVars
    /\ UNCHANGED auxVars

\* inferGeminiNative, lines 1386-1404: the response has no text, or text
\* that is not JSON
NativeBadResponse ==
    /\ pc = "nnet"
    /\ \E text \in {"", "not json"} :
        /\ resp' = Response(text, <<>>, FALSE)
        /\ Finish(Result("InferError", text, ctx))
    /\ UNCHANGED <<args, ctx, exec, sent, netCalls, limitCalls, startCtx, failure>>
    /\ UNCHANGED accVars
    /\ UNCHANGED selVars
    /\ UNCHANGED auxVars

\* the final output of the native path (1460-1469)
nativeFinalResult(a, text, context, valid) ==
    IF a.schema
    THEN (IF valid THEN Result("object", text, context)
          ELSE Result("InferError", text, context))
    ELSE Result("string", text, context)

\* inferGeminiNative, lines 1406-1431 and 1460-1469: the parsed envelope
\* either names a tool (the tool intent protocol) or is the final output
NativeResponse ==
    /\ pc = "nnet"
    /\ \E action \in toolsOf(args) \cup {"", "unknown_tool"}, thought \in Contents,
          valid \in Validities(args, "text") :
        IF action # "" /\ args.tools
        THEN IF action \notin ToolNames
             THEN /\ Finish(Result("InferError", "text", ctx))
                  /\ UNCHANGED resp
             ELSE /\ resp' = Response(thought,
                                       <<ToolCall("gemini_" \o ToString(netCalls), action)>>,
                                       FALSE)
                  /\ pc' = "ntools"
                  /\ UNCHANGED result
        ELSE /\ Finish(nativeFinalResult(args, "text", ctx, valid))
             /\ resp' = Response("text", <<>>, valid)
    /\ UNCHANGED <<args, ctx, exec, sent, netCalls, limitCalls, startCtx>>
    /\ UNCHANGED accVars
    /\ UNCHANGED <<failure, sel>>
    /\ UNCHANGED auxVars

\* what a signaled round hands to the caller on the native path (1440-1451)
nativeCompletionResult(a, content, newCtx) ==
    IF a.schema THEN Result("AbortError", CompletionError(newCtx.signal), newCtx)
    ELSE Result("string", summaryOrDefault(newCtx.signal), newCtx)

\* inferGeminiNative, lines 1431-1457: the tool ran (or threw), the context
\* is updated, the loop ends on a completion signal and recurses otherwise
NativeTools ==
    /\ pc = "ntools"
    /\ \E o \in ExecOutcomes(resp.toolCalls) :
        LET assistantMessage == AssistantMessage(resp.content, resp.toolCalls)
            newCtx == updateToolCallContext(ctx, assistantMessage, o.results, args.detector)
        IN  /\ exec' = [ran |-> TRUE, threw |-> o.threw, completed |-> o.results,
                        executed |-> IF o.threw = "none" THEN o.results ELSE <<>>,
                        newCtx |-> IF o.threw = "none" THEN newCtx ELSE ctx]
            /\ IF o.threw = "abort"
               THEN /\ Finish(Result("AbortError", "tool aborted", NoCtx))
                    /\ UNCHANGED ctx
               ELSE IF o.threw = "error"
               THEN /\ Finish(Result("Error", "tool execution", NoCtx))
                    /\ UNCHANGED ctx
               ELSE IF newCtx.signal.signaled
               THEN /\ Finish(nativeCompletionResult(args, resp.content, newCtx))
                    /\ UNCHANGED ctx
               ELSE /\ pc' = "native"
                    /\ ctx' = newCtx
                    /\ UNCHANGED result
    /\ UNCHANGED <<args, resp, sent, netCalls, limitCalls, startCtx>>
    /\ UNCHANGED accVars
    /\ UNCHANGED <<failure, sel>>
    /\ UNCHANGED auxVars

----------------------------------------------------------------------------
(* Specification of the inference loop *)

AccIdle ==
    /\ byIndex = <<>>
    /\ byId = <<>>
    /\ entries = <<>>
    /\ frags = <<>>
    /\ assembled = <<>>

Init == InferInit /\ AccIdle

Next ==
    \/ InferEnter
    \/ InferNetworkError
    \/ InferResponse
    \/ InferTools
    \/ NativeEnter
    \/ NativeNetworkError
    \/ NativeBadResponse
    \/ NativeResponse
    \/ NativeTools

Spec == Init /\ [][Next]_vars

TypeOK == pc \in {"infer", "net", "tools", "native", "nnet", "ntools", "done"}

----------------------------------------------------------------------------
(* Streaming tool-call accumulator: accumulateToolCallDelta, assembleToolCalls *)

\* argument strings are sequences of characters over this alphabet
ArgChars == {"[", "]"}

\* JSON.parse succeeds: over the alphabet the complete values are the
\* nested one-element arrays [], [[]], ...
RECURSIVE IsJSON(_)
IsJSON(str) ==
    /\ Len(str) >= 2
    /\ str[1] = "["
    /\ str[Len(str)] = "]"
    /\ (Len(str) = 2 \/ IsJSON(SubSeq(str, 2, Len(str) - 1)))

Put(map, key, value) ==
    [k \in DOMAIN map \cup {key} |-> IF k = key THEN value ELSE map[k]]

deleteKeepsKey(map, key) == map

\* byId.delete(entry.id)
Delete(map, key) == [k \in DOMAIN map \ {key} |-> map[k]]

\* a streamed tool-call delta; id "" and name "" stand for a missing field
Fragment(hasIndex, index, id, name, hasArgs, arguments) ==
    [hasIndex |-> hasIndex, index |-> index, id |-> id, name |-> name,
     hasArgs |-> hasArgs, arguments |-> arguments]

FragmentIds == {"a", "b"}
FragmentIndexes == {0, 1}

\* a delta either names the function or carries an argument chunk
Fragments ==
    { Fragment(hi, IF hi THEN ix ELSE 0, id, p[1], p[2], p[3]) :
        hi \in BOOLEAN, ix \in FragmentIndexes, id \in FragmentIds \cup {""},
        p \in {<<"search", FALSE, <<>>>>, <<"", TRUE, <<"[">>>>, <<"", TRUE, <<"]">>>>} }

\* synthIdForIndex: unique within the process (clock and random suffix)
synthIdForIndex(order) == "tool_" \o ToString(order)

findEntryIgnoringIndex(idxMap, idMap, d) ==
    IF d.id # "" /\ d.id \in DOMAIN idMap THEN idMap[d.id] ELSE 0

\* lines 69-76: look up the entry by id, then by index; 0 when there is none
findEntry(idxMap, idMap, d) ==
    IF d.id # "" /\ d.id \in DOMAIN idMap THEN idMap[d.id]
    ELSE IF d.hasIndex /\ d.index \in DOMAIN idxMap THEN idxMap[d.index]
    ELSE 0

appendArgumentsAlways(before, chunk) == before \o chunk

\* lines 112-146: append the chunk unless the arguments already parse
appendArguments(before, chunk) ==
    IF Len(before) > 0 /\ IsJSON(before) THEN before ELSE before \o chunk

\* accumulateToolCallDelta: the maps and entries after one delta, and the
\* number of the entry the delta went to
accumulateToolCallDelta(idxMap, idMap, ents, d) ==
    LET found == findEntry(idxMap, idMap, d)
        isNew == found = 0
        e == IF isNew THEN Len(ents) + 1 ELSE found
        provisionalId == IF d.id # "" THEN d.id ELSE synthIdForIndex(Len(ents))
        created == [id |-> provisionalId, hasIndex |-> d.hasIndex, index |-> d.index,
                    name |-> "", arguments |-> <<>>, order |-> Len(ents)]
        ents1 == IF isNew THEN Append(ents, created) ELSE ents
        idx1 == IF isNew /\ d.hasIndex THEN Put(idxMap, d.index, e) ELSE idxMap
        id1 == IF isNew THEN Put(idMap, provisionalId, e) ELSE idMap
        \* update id if provided and different
        rekey == d.id # "" /\ ents1[e].id # d.id
        id2 == IF rekey THEN Put(Delete(id1, ents1[e].id), d.id, e) ELSE id1
        ents2 == IF rekey THEN [ents1 EXCEPT ![e].id = d.id] ELSE ents1
        \* register index if provided and not yet registered
        register == d.hasIndex /\ ~ents2[e].hasIndex
        idx2 == IF register THEN Put(idx1, d.index, e) ELSE idx1
        ents3 == IF register THEN [ents2 EXCEPT ![e].hasIndex = TRUE, ![e].index = d.index]
                 ELSE ents2
        ents4 == IF d.name # "" THEN [ents3 EXCEPT ![e].name = d.name] ELSE ents3
        ents5 == IF d.hasArgs
                 THEN [ents4 EXCEPT ![e].arguments = appendArguments(@, d.arguments)]
                 ELSE ents4
    IN  [byIndex |-> idx2, byId |-> id2, entries |-> ents5, entry |-> e]

\* the entries of a set of entry numbers, sorted by key ascending
RECURSIVE SortedBy(_, _, _)
SortedBy(S, ents, key) ==
    IF S = {} THEN <<>>
    ELSE LET first == CHOOSE x \in S : \A y \in S : key[x] <= key[y]
         IN  <<ents[first]>> \o SortedBy(S \ {first}, ents, key)

Request(entry) == [id |-> entry.id, name |-> entry.name, arguments |-> entry.arguments]

Range(map) == {map[k] : k \in DOMAIN map}

assembleFirstSeen(idxMap, idMap, ents) ==
    LET chosen == SortedBy(Range(idxMap) \cup Range(idMap), ents,
                           [e \in DOMAIN ents |-> ents[e].order])
    IN  [i \in DOMAIN chosen |-> Request(chosen[i])]

\* assembleToolCalls: by index when any entry is registered by index, else
\* in first-seen order
assembleToolCalls(idxMap, idMap, ents) ==
    LET chosen == IF DOMAIN idxMap # {}
                  THEN SortedBy(Range(idxMap), ents, [e \in DOMAIN ents |-> ents[e].index])
                  ELSE SortedBy(Range(idMap), ents, [e \in DOMAIN ents |-> ents[e].order])
    IN  [i \in DOMAIN chosen |-> Request(chosen[i])]

AccInit ==
    /\ pc = "stream"
    /\ byIndex = <<>>
    /\ byId = <<>>
    /\ entries = <<>>
    /\ frags = <<>>
    /\ assembled = <<>>
    /\ args = [provider |-> "openai", schema |-> FALSE, format |-> FALSE, stream |-> TRUE,
               tools |-> TRUE, detector |-> FALSE, actionKey |-> "conversationalResponse",
               nmsgs |-> 1, runtimeOverrides |-> FALSE]
    /\ ctx = NoCtx
    /\ startCtx = NoCtx
    /\ resp = NoResp
    /\ exec = NoExec
    /\ result = Pending
    /\ sent = <<>>
    /\ netCalls = 0
    /\ limitCalls = 0
    /\ failure = NoFailure
    /\ sel = NoSel
    /\ AuxIdle

\* infer, lines 999-1003: one tool-call delta of the stream is accumulated
AccumulateDelta ==
    /\ pc = "stream"
    /\ Len(frags) < MaxFrags
    /\ \E d \in Fragments :
        LET next == accumulateToolCallDelta(byIndex, byId, entries, d) IN
        /\ byIndex' = next.byIndex
        /\ byId' = next.byId
        /\ entries' = next.entries
        /\ frags' = Append(frags, [delta |-> d, entry |-> next.entry])
    /\ UNCHANGED <<pc, assembled>>
    /\ UNCHANGED inferVars
    /\ UNCHANGED <<failure, sel>>
    /\ UNCHANGED auxVars

\* infer, line 1020: the stream ended and the tool calls are assembled
AssembleStream ==
    /\ pc = "stream"
    /\ assembled' = assembleToolCalls(byIndex, byId, entries)
    /\ pc' = "assembled"
    /\ UNCHANGED <<byIndex, byId, entries, frags>>
    /\ UNCHANGED <<args, ctx, resp, exec, result, sent, netCalls, limitCalls, startCtx>>
    /\ UNCHANGED <<failure, sel>>
    /\ UNCHANGED auxVars

\* infer, lines 1021-1025: assembled calls without a name are dropped
streamedToolCalls(requests) ==
    LET named == SelectSeq(requests, LAMBDA r : r.name # "")
    IN  [i \in DOMAIN named |-> ToolCall(named[i].id, named[i].name)]

\* infer, lines 1073-1122: the assembled calls are executed and the context
\* is extended by the assistant message and the tool messages; the maps of
\* the stream block (986-988) are out of scope by then
AccExecute ==
    /\ pc = "assembled"
    /\ \E o \in ExecOutcomes(streamedToolCalls(assembled)) :
        LET toolCalls == streamedToolCalls(assembled)
            assistantMessage == AssistantMessage("", toolCalls)
            executed == IF o.threw = "none" THEN o.results ELSE <<>>
            newCtx == updateToolCallContext(ctx, assistantMessage, executed, args.detector)
            kept == IF o.threw = "abort" \/ executed # <<>> THEN newCtx ELSE ctx
        IN  /\ exec' = [ran |-> TRUE, threw |-> o.threw, completed |-> o.results,
                        executed |-> executed, newCtx |-> kept]
            /\ ctx' = kept
    /\ pc' = "executed"
    /\ byIndex' = <<>>
    /\ byId' = <<>>
    /\ entries' = <<>>
    /\ frags' = <<>>
    /\ UNCHANGED <<assembled, args, resp, result, sent, netCalls, limitCalls, startCtx>>
    /\ UNCHANGED <<failure, sel>>
    /\ UNCHANGED auxVars

AccNext == AccumulateDelta \/ AssembleStream \/ AccExecute

AccSpec == AccInit /\ [][AccNext]_vars

----------------------------------------------------------------------------
(* Template selection: selectTemplate (planning/templateSelector.ts) *)

\* largest retryCount a caller passes to selectTemplate
MaxRetryCount == 2
\* largest number of enabled templates of one project type
MaxTemplates == 2

\* project types; "presentation" is handled like "workflow" and left out
ProjectTypes == {"app", "workflow", "general"}

\* executeInference (../inferutils/infer): it returns the model's answer
\* or throws what infer threw
InferenceOutcomes == {"ok", "RateLimitExceededError", "SecurityError", "Error"}

\* runModel followed by JSON.parse(res.text): the text may fail to parse
RunModelOutcomes == InferenceOutcomes \cup {"SyntaxError"}

\* the arguments of a top-level selectTemplate call; projectType "undefined"
\* stands for an omitted projectType
SelectArgs ==
    { [NoSel EXCEPT !.pc = "intent", !.projectType = p, !.templates = t,
                    !.retryCount = r, !.attempts = 1] :
        p \in ProjectTypes \cup {"auto", "undefined"},
        t \in [ProjectTypes -> 0..MaxTemplates],
        r \in 0..MaxRetryCount }

\* selectTemplate returned a selection or threw
SelReturn(s, outcome) == [s EXCEPT !.pc = "done", !.outcome = outcome]

selCatchRetriesAll(s, err) ==
    IF s.retryCount > 0
    THEN [s EXCEPT !.pc = "intent", !.retryCount = @ - 1, !.attempts = @ + 1]
    ELSE SelReturn(s, "failed")

\* selectTemplate, lines 339-361: the catch clause
selCatch(s, err) ==
    IF err \in {"RateLimitExceededError", "SecurityError"} THEN SelReturn(s, err)
    ELSE IF s.retryCount > 0
    THEN [s EXCEPT !.pc = "intent", !.retryCount = @ - 1, !.attempts = @ + 1]
    ELSE SelReturn(s, "failed")

\* an inference call of selectTemplate came back with outcome o
SelCalled(s, o) == [s EXCEPT !.calls = @ + 1, !.thrown = IF o = "ok" THEN "none" ELSE o]

\* candidates.length: enabled templates of the project type, all for general
candidateCount(s) ==
    IF s.actual = "general"
    THEN s.templates["app"] + s.templates["workflow"] + s.templates["general"]
    ELSE s.templates[s.actual]

SelFrame ==
    /\ UNCHANGED <<pc, failure>>
    /\ UNCHANGED inferVars
    /\ UNCHANGED accVars
    /\ UNCHANGED auxVars

\* selectTemplate, line 172: decomposeIntent
SelIntent ==
    /\ sel.pc = "intent"
    /\ \E o \in RunModelOutcomes :
        LET s == SelCalled(sel, o) IN
        sel' = IF o = "ok" THEN [s EXCEPT !.pc = "ptype"] ELSE selCatch(s, o)
    /\ SelFrame

\* selectTemplate, lines 176-179, and predictProjectType (40-96), whose
\* catch turns every failure of its inference call into "app"
SelProjectType ==
    /\ sel.pc = "ptype"
    /\ IF sel.projectType = "auto"
       THEN \E o \in InferenceOutcomes, predicted \in ProjectTypes :
                sel' = [SelCalled(sel, o) EXCEPT
                            !.pc = "filter",
                            !.actual = IF o = "ok" THEN predicted ELSE "app"]
       ELSE sel' = [sel EXCEPT !.pc = "filter",
                               !.actual = IF sel.projectType = "undefined" THEN "app"
                                          ELSE sel.projectType]
    /\ SelFrame

\* selectTemplate, lines 183-214: the candidates and the two early returns
SelFilter ==
    /\ sel.pc = "filter"
    /\ sel' = IF candidateCount(sel) = 0 THEN SelReturn(sel, "none")
              ELSE IF sel.actual = "workflow" /\ candidateCount(sel) = 1
              THEN SelReturn(sel, "only")
              ELSE [sel EXCEPT !.pc = "analyze"]
    /\ SelFrame

\* selectTemplate, lines 218-288: analyzeTemplates, the scoring and the
\* choice between the judge and the final selection
SelAnalyze ==
    /\ sel.pc = "analyze"
    /\ \E o \in InferenceOutcomes, scored \in 0..candidateCount(sel), close \in BOOLEAN :
        LET s == SelCalled(sel, o) IN
        sel' = IF o # "ok" THEN selCatch(s, o)
               ELSE IF scored = 0 THEN SelReturn(s, "fallback")
               ELSE IF scored > 1 /\ close THEN [s EXCEPT !.pc = "judge"]
               ELSE [s EXCEPT !.pc = "final"]
    /\ SelFrame

\* selectTemplate, lines 273-287: judgeTemplates
SelJudge ==
    /\ sel.pc = "judge"
    /\ \E o \in RunModelOutcomes :
        LET s == SelCalled(sel, o) IN
        sel' = IF o = "ok" THEN [s EXCEPT !.pc = "final"] ELSE selCatch(s, o)
    /\ SelFrame

\* selectTemplate, lines 326-338: the final selection
SelFinal ==
    /\ sel.pc = "final"
    /\ \E o \in InferenceOutcomes :
        LET s == SelCalled(sel, o) IN
        sel' = IF o = "ok" THEN SelReturn(s, "selection") ELSE selCatch(s, o)
    /\ SelFrame

LoopIdle ==
    /\ args = [provider |-> "openai", schema |-> FALSE, format |-> FALSE, stream |-> FALSE,
               tools |-> FALSE, detector |-> FALSE, actionKey |-> "templateSelection",
               nmsgs |-> 1, runtimeOverrides |-> FALSE]
    /\ ctx = NoCtx
    /\ startCtx = NoCtx
    /\ resp = NoResp
    /\ exec = NoExec
    /\ result = Pending
    /\ sent = <<>>
    /\ netCalls = 0
    /\ limitCalls = 0

SelInit ==
    /\ pc = "select"
    /\ sel \in SelectArgs
    /\ failure = NoFailure
    /\ AuxIdle
    /\ LoopIdle
    /\ AccIdle

SelNext ==
    \/ SelIntent
    \/ SelProjectType
    \/ SelFilter
    \/ SelAnalyze
    \/ SelJudge
    \/ SelFinal

SelSpec == SelInit /\ [][SelNext]_vars

----------------------------------------------------------------------------
(* Classification of failed requests *)

ClassifyInit ==
    /\ pc = "failed"
    /\ \E native \in BOOLEAN :
        /\ failure \in (IF native THEN GeminiFailures ELSE StandardFailures)
        /\ args = [provider |-> IF native THEN "google-ai-studio" ELSE "openai",
                   schema |-> FALSE, format |-> FALSE, stream |-> FALSE,
                   tools |-> FALSE, detector |-> FALSE,
                   actionKey |-> "templateSelection", nmsgs |-> 1, runtimeOverrides |-> FALSE]
    /\ ctx \in {NoCtx, Context(<<>>, 0, NoSignal, FALSE)}
    /\ startCtx = ctx
    /\ resp = NoResp
    /\ exec = NoExec
    /\ result = Pending
    /\ sent = <<>>
    /\ netCalls = 1
    /\ limitCalls = IF requiresNativeInference(args.provider) THEN 0 ELSE 1
    /\ sel = NoSel
    /\ AuxIdle
    /\ AccIdle

ClassifyFrame ==
    /\ UNCHANGED <<args, ctx, resp, exec, sent, netCalls, limitCalls, startCtx, failure, sel>>
    /\ UNCHANGED accVars
    /\ UNCHANGED auxVars

\* infer, lines 928-973
ClassifyStandard ==
    /\ pc = "failed"
    /\ ~requiresNativeInference(args.provider)
    /\ pc' = "classified"
    /\ result' = classifyNetworkError(failure, ctx)
    /\ ClassifyFrame

\* inferGeminiNative, lines 1307-1384
ClassifyGemini ==
    /\ pc = "failed"
    /\ requiresNativeInference(args.provider)
    /\ pc' = "classified"
    /\ result' = classifyGeminiFailure(failure, ctx)
    /\ ClassifyFrame

ClassifyNext == ClassifyStandard \/ ClassifyGemini

ClassifySpec == ClassifyInit /\ [][ClassifyNext]_vars

----------------------------------------------------------------------------
(* Credential and base-URL resolution: getConfigurationForModel *)

\* apiKey.trim().length < 10
MinApiKeyLength == 10

\* keys, tokens and placeholders are character sequences
Blank == <<" ", " ">>
NoneText == <<"n", "o", "n", "e">>
DefaultText == <<"d", "e", "f", "a", "u", "l", "t">>
PaddedDefault == <<" ", "D", "e", "f", "a", "u", "l", "t", " ">>
\* nine characters
ShortKey == <<"s", "k", "-", "0", "0", "0", "0", "0", "1">>
\* ten characters of which eight remain after trim()
PaddedShortKey == <<" ", "s", "k", "-", "0", "0", "0", "0", "1", " ">>
\* a key of exactly ten characters; the first one tells where it came from
Key(origin) == <<origin>> \o ShortKey

RECURSIVE trimStart(_)
trimStart(str) ==
    IF str # <<>> /\ Head(str) = " " THEN trimStart(Tail(str)) ELSE str

RECURSIVE trimEnd(_)
trimEnd(str) ==
    IF str # <<>> /\ str[Len(str)] = " " THEN trimEnd(SubSeq(str, 1, Len(str) - 1)) ELSE str

trim(str) == trimEnd(trimStart(str))

toLowerCase(str) ==
    [i \in DOMAIN str |-> CASE str[i] = "D" -> "d"
                            [] str[i] = "N" -> "n"
                            [] OTHER -> str[i]]

\* isValidApiKey, lines 251-260
isValidApiKey(apiKey) ==
    IF ~IsTruthy(apiKey) \/ trim(apiKey.str) = <<>> THEN FALSE
    ELSE IF \/ toLowerCase(trim(apiKey.str)) = DefaultText
            \/ toLowerCase(trim(apiKey.str)) = NoneText
            \/ Len(trim(apiKey.str)) < MinApiKeyLength
    THEN FALSE
    ELSE TRUE

\* URL text is a sequence of parts: a scheme, a host and path segments, an
\* empty last segment standing for a trailing slash; text that does not
\* start with a scheme is not parseable
Schemes == {"https:", "http:", "ftp:"}

GoodGatewayUrl == <<"https:", "gw.example", "v1", "">>
FtpGatewayUrl == <<"ftp:", "gw.example", "v1">>
BadGatewayUrl == <<"gw.example", "v1">>
NoneUrl == <<"none">>

\* new URL(text): throws a TypeError on text that is not a URL
urlParses(text) == Len(text) >= 2 /\ text[1] \in Schemes

URL(text) == [protocol |-> text[1], host |-> text[2], pathname |-> SubSeq(text, 3, Len(text))]

urlToString(url) == <<url.protocol, url.host>> \o url.pathname

\* buildGatewayPathname, lines 204-206: "" stands for no provider override
buildGatewayPathname(cleanPathname, providerOverride) ==
    IF providerOverride # "" THEN Append(cleanPathname, providerOverride)
    ELSE Append(cleanPathname, "compat")

\* constructGatewayUrl, lines 208-212
constructGatewayUrl(url, providerOverride) ==
    LET p == url.pathname
        cleanPathname == IF p # <<>> /\ p[Len(p)] = "" THEN SubSeq(p, 1, Len(p) - 1) ELSE p
    IN  urlToString([url EXCEPT !.pathname = buildGatewayPathname(cleanPathname, providerOverride)])

\* env.AI.gateway(env.CLOUDFLARE_AI_GATEWAY).getUrl(...), lines 246-248
bindingGatewayUrl(providerOverride) ==
    <<"https:", "gateway.ai.cloudflare.com", "v1", "account", "gateway">>
        \o <<IF providerOverride # "" THEN providerOverride ELSE "compat">>

Thrown(kind) == [threw |-> kind, baseURL |-> <<>>, apiKey |-> Undefined, hasHeaders |-> FALSE,
                 headerToken |-> Undefined]
Resolved(baseURL, apiKey, hasHeaders, token) ==
    [threw |-> "none", baseURL |-> baseURL, apiKey |-> apiKey, hasHeaders |-> hasHeaders,
     headerToken |-> token]

NoGatewayOverride == [has |-> FALSE, baseUrl |-> <<>>, token |-> <<>>]
GatewayOverride(baseUrl, token) == [has |-> TRUE, baseUrl |-> baseUrl, token |-> token]

\* the value passes the three tests of lines 226-228
envGatewayUrlSet(v) == IsTruthy(v) /\ v.str # NoneUrl /\ trim(v.str) # <<>>

\* buildGatewayUrl, lines 214-249: the override is parsed outside any try
\* block, the environment value inside one
buildGatewayUrl(c, providerOverride) ==
    IF c.gatewayOverride.has /\ c.gatewayOverride.baseUrl # <<>>
    THEN IF urlParses(c.gatewayOverride.baseUrl)
         THEN [threw |-> FALSE,
               url |-> constructGatewayUrl(URL(c.gatewayOverride.baseUrl), providerOverride)]
         ELSE [threw |-> TRUE, url |-> <<>>]
    ELSE IF /\ envGatewayUrlSet(c.envGatewayUrl)
            /\ urlParses(c.envGatewayUrl.str)
            /\ URL(c.envGatewayUrl.str).protocol \in {"http:", "https:"}
    THEN [threw |-> FALSE,
          url |-> constructGatewayUrl(URL(c.envGatewayUrl.str), providerOverride)]
    ELSE [threw |-> FALSE, url |-> bindingGatewayUrl(providerOverride)]

\* gatewayOverride?.token ?? env.CLOUDFLARE_AI_GATEWAY_TOKEN
gatewayToken(c) ==
    IF c.gatewayOverride.has THEN Str(c.gatewayOverride.token) ELSE c.envGatewayToken

getApiKeyFallsBack(c) ==
    IF IsTruthy(c.runtimeKey) /\ isValidApiKey(c.runtimeKey)
    THEN [threw |-> FALSE, apiKey |-> c.runtimeKey]
    ELSE IF ~isValidApiKey(c.envKey)
    THEN [threw |-> FALSE, apiKey |-> gatewayToken(c)]
    ELSE [threw |-> FALSE, apiKey |-> c.envKey]

\* getApiKey, lines 262-310; c.envKey is the value of the provider's
\* environment variable (GROQ_API_KEY, DEEPSEEK_API_KEY, <PROVIDER>_API_KEY)
getApiKey(c) ==
    IF IsTruthy(c.runtimeKey) /\ isValidApiKey(c.runtimeKey)
    THEN [threw |-> FALSE, apiKey |-> c.runtimeKey]
    ELSE IF ~isValidApiKey(c.envKey)
    THEN IF c.provider = "deepseek"
         THEN [threw |-> TRUE, apiKey |-> Undefined]
         ELSE [threw |-> FALSE, apiKey |-> gatewayToken(c)]
    ELSE [threw |-> FALSE, apiKey |-> c.envKey]

DirectProviders == {"openrouter", "anthropic", "grok", "openai", "deepseek"}

directBaseURL(provider) ==
    CASE provider = "openrouter" -> <<"https:", "openrouter.ai", "api", "v1">>
      [] provider = "anthropic" -> <<"https:", "api.anthropic.com", "v1", "">>
      [] provider = "grok" -> <<"https:", "api.x.ai", "v1">>
      [] provider = "openai" -> <<"https:", "api.openai.com", "v1">>
      [] provider = "deepseek" -> <<"https:", "api.deepseek.com", "v1">>

\* getConfigurationForModel, lines 312-378
getConfigurationForModel(c) ==
    IF c.directOverride /\ c.provider \in DirectProviders
    THEN IF c.provider = "deepseek" /\ (~IsTruthy(c.envKey) \/ ~isValidApiKey(c.envKey))
         THEN Thrown("Error")
         ELSE Resolved(directBaseURL(c.provider), c.envKey, FALSE, Undefined)
    ELSE LET providerForcedOverride == IF c.directOverride THEN c.provider ELSE ""
             baseURL == buildGatewayUrl(c, providerForcedOverride)
             token == gatewayToken(c)
             key == getApiKey(c)
         IN  IF baseURL.threw THEN Thrown("TypeError")
             ELSE IF key.threw THEN Thrown("Error")
             ELSE IF IsTruthy(token) /\ key.apiKey # token
             THEN Resolved(baseURL.url, key.apiKey, TRUE, token)
             ELSE Resolved(baseURL.url, key.apiKey, FALSE, Undefined)

ConfigProviders == DirectProviders \cup {"google-ai-studio"}

\* userApiKeys[provider] of the runtime overrides
RuntimeKeys ==
    {Undefined, Str(<<>>), Str(Blank), Str(NoneText), Str(PaddedDefault), Str(ShortKey),
     Str(PaddedShortKey), Str(Key("r"))}

\* the provider's environment credential
EnvKeys ==
    {Undefined, Str(<<>>), Str(Blank), Str(NoneText), Str(PaddedDefault), Str(ShortKey),
     Str(Key("e"))}

GatewayOverrides ==
    {NoGatewayOverride}
    \cup { GatewayOverride(u, t) : u \in {<<>>, GoodGatewayUrl, BadGatewayUrl},
                                    t \in {<<>>, Key("g")} }

\* env.CLOUDFLARE_AI_GATEWAY_URL
EnvGatewayUrls ==
    {Undefined, Str(NoneUrl), Str(GoodGatewayUrl), Str(FtpGatewayUrl), Str(BadGatewayUrl)}

\* env.CLOUDFLARE_AI_GATEWAY_TOKEN
EnvGatewayTokens == {Undefined, Str(Key("t"))}

ConfigInputs ==
    [pc : {"resolve"}, provider : ConfigProviders, directOverride : BOOLEAN,
     runtimeKey : RuntimeKeys, envKey : EnvKeys, gatewayOverride : GatewayOverrides,
     envGatewayUrl : EnvGatewayUrls, envGatewayToken : EnvGatewayTokens,
     out : {Thrown("pending")}]

ConfigInit ==
    /\ pc = "config"
    /\ cfg \in ConfigInputs
    /\ sink = NoSink
    /\ bp = NoBlueprint
    /\ MoreIdle
    /\ failure = NoFailure
    /\ sel = NoSel
    /\ LoopIdle
    /\ AccIdle

\* infer, lines 731-736: the configuration of one call is resolved
ConfigResolve ==
    /\ cfg.pc = "resolve"
    /\ cfg' = [cfg EXCEPT !.pc = "resolved", !.out = getConfigurationForModel(cfg)]
    /\ UNCHANGED <<pc, failure, sel, sink, bp, chain, comp>>
    /\ UNCHANGED inferVars
    /\ UNCHANGED accVars

ConfigNext == ConfigResolve

ConfigSpec == ConfigInit /\ [][ConfigNext]_vars

----------------------------------------------------------------------------
(* Streamed content and the chunk callback: infer, lines 990-1017 *)

\* largest number of events of one stream
MaxEvents == 4
\* largest stream.chunk_size
MaxChunkSize == 3

\* delta.content of an event; <<>> stands for an absent or empty content
ContentPieces == {<<>>, <<"a">>, <<"b", "c">>}

\* an event of the stream: its content delta and whether finish_reason is set
StreamEvent(content, finished) == [content |-> content, finished |-> finished]

StreamEvents == { StreamEvent(c, f) : c \in ContentPieces, f \in BOOLEAN }

\* content.slice(streamIndex)
slice(content, streamIndex) == SubSeq(content, streamIndex + 1, Len(content))

consumeEventResendsBuffer(s, event) ==
    LET content == s.content \o event.content
        part == slice(content, s.streamIndex)
    IN  IF Len(part) >= s.chunkSize \/ event.finished
        THEN [s EXCEPT !.content = content,
                       !.events = @ + 1,
                       !.chunks = Append(@, content),
                       !.streamIndex = @ + Len(part)]
        ELSE [s EXCEPT !.content = content, !.events = @ + 1]

\* lines 1009-1016: the content delta is appended and the unsent text is
\* handed to onChunk once it reaches chunk_size or the event carries a
\* finish reason
consumeEvent(s, event) ==
    LET content == s.content \o event.content
        part == slice(content, s.streamIndex)
    IN  IF Len(part) >= s.chunkSize \/ event.finished
        THEN [s EXCEPT !.content = content,
                       !.events = @ + 1,
                       !.chunks = Append(@, part),
                       !.streamIndex = @ + Len(part)]
        ELSE [s EXCEPT !.content = content, !.events = @ + 1]

SinkInit ==
    /\ pc = "sink"
    /\ \E size \in 0..MaxChunkSize :
        sink = [pc |-> "streaming", chunkSize |-> size, events |-> 0, content |-> <<>>,
                streamIndex |-> 0, chunks |-> <<>>]
    /\ cfg = NoConfig
    /\ bp = NoBlueprint
    /\ MoreIdle
    /\ failure = NoFailure
    /\ sel = NoSel
    /\ LoopIdle
    /\ AccIdle

SinkFrame ==
    /\ UNCHANGED <<pc, failure, sel, cfg, bp, chain, comp>>
    /\ UNCHANGED inferVars
    /\ UNCHANGED accVars

\* one iteration of the for await loop
SinkEvent ==
    /\ sink.pc = "streaming"
    /\ sink.events < MaxEvents
    /\ \E event \in StreamEvents : sink' = consumeEvent(sink, event)
    /\ SinkFrame

\* the stream is exhausted and the loop is left
SinkEnd ==
    /\ sink.pc = "streaming"
    /\ sink' = [sink EXCEPT !.pc = "ended"]
    /\ SinkFrame

SinkNext == SinkEvent \/ SinkEnd

SinkSpec == SinkInit /\ [][SinkNext]_vars

----------------------------------------------------------------------------
(* Repair of blueprint data: normalizeBlueprintData *)

\* largest number of entries of an object map or of an array
MaxEntries == 2

\* JSON values: strings, numbers, null, arrays and objects; an object is
\* the sequence of its key/value pairs in its own enumeration order
JString(s) == [t |-> "string", s |-> s, items |-> <<>>]
JNumber(s) == [t |-> "number", s |-> s, items |-> <<>>]
JNull == [t |-> "null", s |-> "", items |-> <<>>]
JArray(items) == [t |-> "array", s |-> "", items |-> items]
JObject(pairs) == [t |-> "object", s |-> "", items |-> pairs]
Pair(k, v) == [k |-> k, v |-> v]

\* !raw
isFalsy(v) ==
    \/ v.t = "null"
    \/ (v.t = "string" /\ v.s = "")
    \/ (v.t = "number" /\ v.s = "0")

\* typeof v === 'object' && v !== null && !Array.isArray(v)
isPlainObject(v) == v.t = "object"

hasKey(obj, key) == \E i \in DOMAIN obj.items : obj.items[i].k = key

getKey(obj, key) == obj.items[CHOOSE i \in DOMAIN obj.items : obj.items[i].k = key].v

\* obj[key] = value: an existing key keeps its place, a new one goes last
setKey(obj, key, value) ==
    IF hasKey(obj, key)
    THEN [obj EXCEPT !.items = [i \in DOMAIN obj.items |->
                                   IF obj.items[i].k = key THEN Pair(key, value)
                                   ELSE obj.items[i]]]
    ELSE [obj EXCEPT !.items = Append(@, Pair(key, value))]

\* { [idKey]: key, ...obj } for an object without idKey
withKeyFirst(idKey, key, obj) == JObject(<<Pair(idKey, JString(key))>> \o obj.items)

\* .filter(v => typeof v === 'string')
stringsOf(items) == SelectSeq(items, LAMBDA v : v.t = "string")

RECURSIVE normalizeBlueprintData(_)

entryToItemUnrepaired(idKey, key, value) ==
    IF isPlainObject(value)
    THEN IF ~hasKey(value, idKey) THEN withKeyFirst(idKey, key, value) ELSE value
    ELSE value

entryToItemOverwrites(idKey, key, value) ==
    IF isPlainObject(value)
    THEN LET repaired == normalizeBlueprintData(value) IN
         IF ~hasKey(value, idKey) THEN withKeyFirst(idKey, key, repaired)
         ELSE setKey(repaired, idKey, JString(key))
    ELSE normalizeBlueprintData(value)

\* lines 565-571, 579-585, 596-603: one entry of an object map becomes an
\* item of the array, the key injected as idKey when the entry lacks it
entryToItem(idKey, key, value) ==
    IF isPlainObject(value)
    THEN IF ~hasKey(value, idKey)
         THEN withKeyFirst(idKey, key, normalizeBlueprintData(value))
         ELSE normalizeBlueprintData(value)
    ELSE normalizeBlueprintData(value)

\* Object.entries(map).map(...)
entriesToArray(idKey, map) ==
    JArray([i \in DOMAIN map.items |-> entryToItem(idKey, map.items[i].k, map.items[i].v)])

normalizeItems(arr) == JArray([i \in DOMAIN arr.items |-> normalizeBlueprintData(arr.items[i])])

\* lines 564-575 and 578-589: an object map becomes an array, the items of
\* an array are normalized
normalizeEntryField(obj, field, idKey) ==
    IF ~hasKey(obj, field) THEN obj
    ELSE LET v == getKey(obj, field) IN
         IF ~isFalsy(v) /\ isPlainObject(v) THEN setKey(obj, field, entriesToArray(idKey, v))
         ELSE IF v.t = "array" THEN setKey(obj, field, normalizeItems(v))
         ELSE obj

\* lines 592-605
normalizeInitialPhase(obj) ==
    IF ~hasKey(obj, "initialPhase") THEN obj
    ELSE LET v == getKey(obj, "initialPhase") IN
         IF ~isFalsy(v) /\ isPlainObject(v)
         THEN LET phase == normalizeBlueprintData(v)
                  files == IF hasKey(phase, "files") THEN getKey(phase, "files") ELSE JNull
              IN  IF ~isFalsy(files) /\ isPlainObject(files)
                  THEN setKey(obj, "initialPhase",
                              setKey(phase, "files", entriesToArray("path", files)))
                  ELSE setKey(obj, "initialPhase", phase)
         ELSE obj

\* lines 608-629: pitfalls, frameworks, colorPalette become arrays of strings
normalizeStringField(obj, field) ==
    IF ~hasKey(obj, field) THEN obj
    ELSE LET v == getKey(obj, field) IN
         IF ~isFalsy(v) /\ isPlainObject(v)
         THEN setKey(obj, field,
                     JArray(stringsOf([i \in DOMAIN v.items |-> v.items[i].v])))
         ELSE IF v.t = "array" THEN setKey(obj, field, JArray(stringsOf(v.items)))
         ELSE obj

\* normalizeBlueprintData, lines 551-632
normalizeBlueprintData(raw) ==
    IF isFalsy(raw) \/ raw.t \notin {"object", "array"} THEN raw
    ELSE IF raw.t = "array" THEN normalizeItems(raw)
    ELSE LET n1 == normalizeEntryField(raw, "views", "name")
             n2 == normalizeEntryField(n1, "implementationRoadmap", "phase")
             n3 == normalizeInitialPhase(n2)
             n4 == normalizeStringField(n3, "pitfalls")
             n5 == normalizeStringField(n4, "frameworks")
         IN  normalizeStringField(n5, "colorPalette")

\* entry objects: without an identifying field, with all of them, with a
\* null name, and one holding an object map of views of its own
PlainEntry == JObject(<<Pair("description", JString("d"))>>)
NamedEntry ==
    JObject(<<Pair("name", JString("own")), Pair("phase", JString("own")),
              Pair("path", JString("own"))>>)
NullNameEntry == JObject(<<Pair("description", JString("d")), Pair("name", JNull)>>)
NestedEntry == JObject(<<Pair("views", JObject(<<Pair("Inner", PlainEntry)>>))>>)

EntryValues ==
    {PlainEntry, NamedEntry, NullNameEntry, NestedEntry, JString("x"), JArray(<<PlainEntry>>)}

\* the keys of an object map, in the order the object enumerates them
MapKeys == <<"Main", "Aux", "Extra">>

ObjectMaps ==
    { JObject([i \in 1..n |-> Pair(MapKeys[i], vs[i])]) :
        n \in 0..MaxEntries, vs \in [1..MaxEntries -> EntryValues] }

Arrays ==
    { JArray([i \in 1..n |-> vs[i]]) : n \in 0..MaxEntries, vs \in [1..MaxEntries -> EntryValues] }

FieldValues == ObjectMaps \cup Arrays \cup {JNull, JString("x")}

\* values of initialPhase: an object with files, with files next to views
\* of its own, or something that is not an object
PhaseValues ==
    { JObject(<<Pair("name", JString("first")), Pair("files", v)>>) : v \in FieldValues }
    \cup { JObject(<<Pair("files", v), Pair("views", JObject(<<Pair("Main", PlainEntry)>>))>>) :
            v \in ObjectMaps }
    \cup {JNull, JArray(<<PlainEntry>>)}

BlueprintFields == {"views", "implementationRoadmap", "pitfalls", "frameworks"}

\* a second field next to the one in focus
CompanionFields ==
    { Pair("colorPalette", JObject(<<Pair("Main", JString("red")), Pair("Aux", JNumber("1"))>>)),
      Pair("views", JObject(<<Pair("Main", PlainEntry)>>)),
      Pair("title", JString("t")) }

Blueprints ==
    { JObject(<<Pair(f, v)>>) : f \in BlueprintFields, v \in FieldValues }
    \cup { JObject(<<Pair("initialPhase", v)>>) : v \in PhaseValues }
    \cup { JObject(<<Pair("initialPhase", v), c>>) : v \in PhaseValues, c \in CompanionFields }
    \cup { JObject(<<c, Pair("implementationRoadmap", v)>>) :
            v \in ObjectMaps, c \in CompanionFields }

\* what the repair can be handed: a blueprint, an array of them, a primitive
RawValues ==
    Blueprints
    \cup { JArray(<<JObject(<<Pair("views", v)>>), JNull>>) : v \in ObjectMaps }
    \cup {JNull, JString("x"), JNumber("0")}

BlueprintInit ==
    /\ pc = "blueprint"
    /\ \E raw \in RawValues :
        bp = [pc |-> "raw", raw |-> raw, once |-> JNull, twice |-> JNull]
    /\ cfg = NoConfig
    /\ sink = NoSink
    /\ MoreIdle
    /\ failure = NoFailure
    /\ sel = NoSel
    /\ LoopIdle
    /\ AccIdle

BlueprintFrame ==
    /\ UNCHANGED <<pc, failure, sel, cfg, sink, chain, comp>>
    /\ UNCHANGED inferVars
    /\ UNCHANGED accVars

\* the repair pass runs on the parsed value
Repair ==
    /\ bp.pc = "raw"
    /\ bp' = [bp EXCEPT !.pc = "once", !.once = normalizeBlueprintData(bp.raw)]
    /\ BlueprintFrame

\* the repair pass runs on its own result
RepairAgain ==
    /\ bp.pc = "once"
    /\ bp' = [bp EXCEPT !.pc = "twice", !.twice = normalizeBlueprintData(bp.once)]
    /\ BlueprintFrame

BlueprintNext == Repair \/ RepairAgain

BlueprintSpec == BlueprintInit /\ [][BlueprintNext]_vars

----------------------------------------------------------------------------
(* A context and the context it was derived from *)

\* largest number of recursive rounds followed
MaxRounds == 2

\* the tool calls of an assistant message: a provider may leave an id empty
ChainCalls ==
    { <<ToolCall("call_1", "search")>>,
      <<ToolCall("", "search")>>,
      <<ToolCall("", "search"), ToolCall("call_2", "search")>> }

\* the message objects of the previous context are the first objects of the
\* derived context's list (the spread at lines 509-510 copies references),
\* so an in-place edit of the derived list shows in the previous context
aliased(previous, derived) ==
    IF previous.has
    THEN [previous EXCEPT !.messages = SubSeq(derived.messages, 1, Len(previous.messages))]
    ELSE previous

ChainInit ==
    /\ pc = "chain"
    /\ \E c \in InitContexts :
        chain = [pc |-> "entry", previous |-> NoCtx, toolCallContext |-> c, rounds |-> 0]
    /\ comp = NoCompliance
    /\ cfg = NoConfig
    /\ sink = NoSink
    /\ bp = NoBlueprint
    /\ failure = NoFailure
    /\ sel = NoSel
    /\ LoopIdle
    /\ AccIdle

ChainFrame ==
    /\ UNCHANGED <<pc, failure, sel, cfg, sink, bp, comp>>
    /\ UNCHANGED inferVars
    /\ UNCHANGED accVars

\* infer, lines 806-845: a round builds its request from its context
ChainSanitize ==
    /\ chain.pc = "entry"
    /\ LET edited == sanitizedContext(chain.toolCallContext)
       IN  chain' = [chain EXCEPT !.pc = "respond",
                                  !.toolCallContext = edited,
                                  !.previous = aliased(chain.previous, edited)]
    /\ ChainFrame

\* infer, lines 1073-1181: the tool round ends, the new context is derived
\* and handed to the recursive call
ChainRecurse ==
    /\ chain.pc = "respond"
    /\ chain.rounds < MaxRounds
    /\ \E content \in Contents, calls \in ChainCalls :
        \E o \in { x \in ExecOutcomes(calls) : x.threw = "none" } :
            /\ usableResults(o.results, FALSE) # <<>>
            /\ chain' = [pc |-> "entry",
                         previous |-> chain.toolCallContext,
                         toolCallContext |->
                            updateToolCallContext(chain.toolCallContext,
                                AssistantMessage(content, calls), o.results, FALSE),
                         rounds |-> chain.rounds + 1]
    /\ ChainFrame

\* infer, lines 1182-1190: the round returns without a further tool round
ChainReturn ==
    /\ chain.pc = "respond"
    /\ chain' = [chain EXCEPT !.pc = "returned"]
    /\ ChainFrame

ChainNext == ChainSanitize \/ ChainRecurse \/ ChainReturn

ChainSpec == ChainInit /\ [][ChainNext]_vars

----------------------------------------------------------------------------
(* The deadline of the sandbox compliance check: ensureCompliance *)

\* largest number of quick-check issues and of missing files
MaxIssues == 2
\* largest number of requests and tool executions of the started inference
MaxRequests == 3

ComplianceInit ==
    /\ pc = "compliance"
    /\ \E q \in 0..MaxIssues, m \in 0..MaxIssues :
        comp = [pc |-> "quick", quickIssues |-> q, missingFiles |-> m,
                inference |-> "none", cancelled |-> FALSE, requests |-> 0,
                timer |-> "none", out |-> "none"]
    /\ chain = NoChain
    /\ cfg = NoConfig
    /\ sink = NoSink
    /\ bp = NoBlueprint
    /\ failure = NoFailure
    /\ sel = NoSel
    /\ LoopIdle
    /\ AccIdle

ComplianceFrame ==
    /\ UNCHANGED <<pc, failure, sel, cfg, sink, bp, chain>>
    /\ UNCHANGED inferVars
    /\ UNCHANGED accVars

\* ensureCompliance, lines 197-263: the quick check passes, or the
\* inference is started (no abort signal is handed to it) and the timer set
ComplianceStart ==
    /\ comp.pc = "quick"
    /\ IF comp.quickIssues = 0 /\ comp.missingFiles = 0
       THEN comp' = [comp EXCEPT !.pc = "returned", !.out = "compliant"]
       ELSE comp' = [comp EXCEPT !.pc = "racing", !.inference = "running",
                                 !.timer = "armed"]
    /\ ComplianceFrame

\* executeInference (./infer): the started inference sends a request or
\* runs a tool as long as it has neither settled nor been cancelled
InferenceRequest ==
    /\ comp.inference = "running"
    /\ ~comp.cancelled
    /\ comp.requests < MaxRequests
    /\ comp' = [comp EXCEPT !.requests = @ + 1]
    /\ ComplianceFrame

\* the inference promise settles; lines 261-294: while the race is open
\* this decides it, the finally block clears the timer
InferenceSettles ==
    /\ comp.inference = "running"
    /\ \E outcome \in {"resolved", "rejected"} :
        comp' = IF comp.pc = "racing"
                THEN [comp EXCEPT !.inference = outcome, !.pc = "returned",
                                  !.timer = "cleared",
                                  !.out = IF outcome = "resolved" THEN "fixed"
                                          ELSE "fallback"]
                ELSE [comp EXCEPT !.inference = outcome]
    /\ ComplianceFrame

\* lines 256-279: the timer fires, the race rejects, the catch block
\* returns the quick-check result
ComplianceTimeout ==
    /\ comp.pc = "racing"
    /\ comp.timer = "armed"
    /\ comp' = [comp EXCEPT !.pc = "returned", !.timer = "fired", !.out = "fallback"]
    /\ ComplianceFrame

ComplianceNext ==
    \/ ComplianceStart
    \/ InferenceRequest
    \/ InferenceSettles
    \/ ComplianceTimeout

ComplianceSpec == ComplianceInit /\ [][ComplianceNext]_vars

----------------------------------------------------------------------------
(* Properties of the inference loop *)

maxDepth == getMaxToolCallingDepth(args.actionKey)

AtEntry == pc \in {"infer", "native"}

\* C1 as stated: every call of infer (or of its native counterpart) whose
\* incoming context depth is >= maxDepth(actionKey) issues no network
\* request and ends with the max-depth result: an AbortError for a schema
\* caller, the system notice with the context as passed in otherwise.
C1_DepthGuardAlways ==
    [][(AtEntry /\ ctx.depth >= maxDepth)
        => (/\ netCalls' = netCalls
            /\ pc' = "done"
            /\ result' = depthResult(args, ctx))]_vars

\* C1 amended: the same, for calls whose base conversation holds at most
\* MAX_LLM_MESSAGES messages; a longer conversation is rejected with the
\* message-limit error, also without any network request.
C1_DepthGuard ==
    [][(AtEntry /\ ctx.depth >= maxDepth)
        => (/\ netCalls' = netCalls
            /\ pc' = "done"
            /\ ctx' = ctx
            /\ IF args.nmsgs <= MAX_LLM_MESSAGES
               THEN result' = depthResult(args, ctx)
               ELSE result'.kind = "RateLimitExceededError")]_vars

\* a recursive round ran into the depth guard
C1_Witness ==
    /\ pc = "done"
    /\ netCalls >= 1
    /\ ctx.depth >= maxDepth
    /\ result = depthResult(args, ctx)
    /\ result.text \in {MaxDepthNotice, MaxDepthError}

Remaining == IF ctx.depth >= maxDepth THEN 0 ELSE maxDepth - ctx.depth

Stage ==
    CASE pc = "infer" -> 4
      [] pc = "native" -> 3
      [] pc \in {"net", "nnet"} -> 2
      [] pc \in {"tools", "ntools"} -> 1
      [] OTHER -> 0

Variant == IF pc = "done" THEN 0 ELSE 5 * Remaining + Stage

RoundsBound == IF startCtx.depth >= maxDepth THEN 0 ELSE maxDepth - startCtx.depth

\* C2: every logical request terminates within maxDepth - d network rounds:
\* the number of requests issued never exceeds that bound, every step of
\* the loop (network reply or tool execution returning) strictly decreases
\* a natural-number measure, and a request that is not finished can step.
C2_Terminates ==
    /\ [](netCalls <= RoundsBound)
    /\ [][Variant' < Variant]_vars
    /\ [](pc # "done" => ENABLED Next)

\* a request that used every round the bound allows, two of them, and ended
C2_Witness ==
    /\ pc = "done"
    /\ netCalls = RoundsBound
    /\ netCalls = 2
    /\ ctx.depth = maxDepth

IsAnswered(msgs, i) ==
    \E j \in 1..(i - 1) :
        /\ msgs[j].role = "assistant"
        /\ msgs[j].hasCalls
        /\ msgs[i].id \in CallIdSet(msgs[j].calls)

\* C3 as stated: no tool message of the transmitted list carries a
\* tool_call_id that is missing from every preceding assistant tool_calls set.
C3_NoOrphanSent ==
    \A i \in DOMAIN sent : sent[i].role = "tool" => IsAnswered(sent, i)

\* C6 as stated: an AbortError out of tool execution never leaves infer as an
\* exception; infer returns the response text and an updated context.
C6_AbortReturnsNormally ==
    exec.threw = "abort"
        => /\ pc = "done"
           /\ result.kind = "string"
           /\ result.text = resp.content
           /\ result.ctx.has
           /\ result.ctx.depth = ctx.depth + 1

IsToolMessageFor(m, r) == m.role = "tool" /\ m.id = r.id /\ m.name = r.name

\* C7 as stated: after a cancelled batch the context returned by infer holds
\* a tool message for every call that completed before the cancellation.
C7_PartialResultsCaptured ==
    (pc = "done" /\ exec.threw = "abort" /\ ~requiresNativeInference(args.provider))
        => \A i \in DOMAIN exec.completed :
            \E j \in DOMAIN result.ctx.messages :
                /\ j > Len(ctx.messages)
                /\ IsToolMessageFor(result.ctx.messages[j], exec.completed[i])

\* C8: a context that carries a completion signal hands that signal on
\* unchanged to every context derived from it by a tool-result update: the
\* context of the next round and the context returned to the caller.
C8_SignalImmutable ==
    [][ctx.signal.set
        => /\ ctx'.signal = ctx.signal
           /\ (pc \in {"tools", "ntools"}
                => /\ exec'.newCtx.signal = ctx.signal
                   /\ (result'.ctx.has => result'.ctx.signal = ctx.signal))]_vars

HasCompletionResult(executed) ==
    \E i \in DOMAIN executed : isCompletionTool(executed[i].name)

\* a round executed a completion tool under a detector although the context
\* already carried a signal with another summary, and the old signal was kept
C8_Witness ==
    /\ pc = "done"
    /\ args.detector
    /\ startCtx.signal.set
    /\ HasCompletionResult(exec.executed)
    /\ detectCompletion(exec.executed) # startCtx.signal
    /\ result.ctx.has
    /\ result.ctx.depth > startCtx.depth
    /\ result.ctx.signal = startCtx.signal

\* C9 as stated: a round that executed tool calls and left the context
\* signaled ends the loop; a schema caller gets the completion abort with
\* the summary and the updated context, a free-text caller the response
\* text or, without text, the summary.
C9_CompletionEndsLoop ==
    (exec.executed # <<>> /\ exec.newCtx.signal.signaled)
        => /\ pc = "done"
           /\ result =
                IF args.schema
                THEN Result("AbortError", CompletionError(exec.newCtx.signal), exec.newCtx)
                ELSE Result("string",
                            IF resp.content # "" THEN resp.content
                            ELSE summaryOrDefault(exec.newCtx.signal),
                            exec.newCtx)

\* C10 as stated: a round whose tool calls produced no usable result ends
\* the loop with the current text and the context extended by this round.
C10_NoUsableResultEnds ==
    (/\ exec.ran
     /\ resp.toolCalls # <<>>
     /\ exec.threw # "abort"
     /\ usableResults(exec.executed, args.detector) = <<>>
     /\ ~exec.newCtx.signal.signaled)
        => /\ pc = "done"
           /\ result = Result("string", resp.content,
                              updateToolCallContext(ctx,
                                  AssistantMessage(resp.content, resp.toolCalls),
                                  exec.executed, args.detector))

----------------------------------------------------------------------------
(* Properties of the accumulator *)

AllHaveId == \A i \in DOMAIN frags : frags[i].delta.id # ""
AllHaveIndex == \A i \in DOMAIN frags : frags[i].delta.hasIndex
NoneHasId == \A i \in DOMAIN frags : frags[i].delta.id = ""

\* the argument chunks of the fragments at the positions in pick,
\* concatenated in arrival order up to the first point where the string parses
RECURSIVE ExpectedArguments(_, _, _, _)
ExpectedArguments(log, pick, i, acc) ==
    IF i > Len(log) THEN acc
    ELSE ExpectedArguments(log, pick, i + 1,
            IF i \in pick /\ log[i].delta.hasArgs
            THEN (IF Len(acc) > 0 /\ IsJSON(acc) THEN acc ELSE acc \o log[i].delta.arguments)
            ELSE acc)

\* C4 as stated: when every fragment carries an id (and an index, whatever
\* its value), the assembled list holds
\* exactly one request per distinct id, and its arguments are the ordered
\* concatenation of that id's chunks up to the first complete JSON.
C4_OneRequestPerId ==
    (pc = "assembled" /\ AllHaveId /\ AllHaveIndex)
        => \A i \in DOMAIN frags :
            LET id == frags[i].delta.id
                hits == {k \in DOMAIN assembled : assembled[k].id = id}
            IN  /\ Cardinality(hits) = 1
                /\ \A k \in hits :
                    assembled[k].arguments =
                        ExpectedArguments(frags, {j \in DOMAIN frags : frags[j].delta.id = id},
                                          1, <<>>)

\* C5: without ids, two fragments go to the same entry exactly when both
\* carry an index and the indexes are equal; the entry registered for an
\* index holds the chunks of that index, in order, up to complete JSON.
C5_IndexOnly ==
    NoneHasId
        => /\ \A i, j \in DOMAIN frags :
                i # j => ((frags[i].entry = frags[j].entry)
                            <=> (/\ frags[i].delta.hasIndex
                                 /\ frags[j].delta.hasIndex
                                 /\ frags[i].delta.index = frags[j].delta.index))
           /\ \A i \in DOMAIN frags :
                frags[i].delta.hasIndex
                    => /\ frags[i].delta.index \in DOMAIN byIndex
                       /\ byIndex[frags[i].delta.index] = frags[i].entry
                       /\ entries[frags[i].entry].arguments =
                            ExpectedArguments(frags,
                                {j \in DOMAIN frags :
                                    /\ frags[j].delta.hasIndex
                                    /\ frags[j].delta.index = frags[i].delta.index},
                                1, <<>>)

\* three id-less fragments: two share index 0 and built one entry whose
\* arguments parse, the third has index 1 and its own entry
C5_Witness ==
    /\ NoneHasId
    /\ Len(frags) = 3
    /\ \E i, j, k \in DOMAIN frags :
        /\ i < j
        /\ frags[i].delta.hasIndex /\ frags[i].delta.index = 0
        /\ frags[j].delta.hasIndex /\ frags[j].delta.index = 0
        /\ frags[k].delta.hasIndex /\ frags[k].delta.index = 1
        /\ frags[i].entry = frags[j].entry
        /\ frags[k].entry # frags[i].entry
        /\ IsJSON(entries[frags[i].entry].arguments)

----------------------------------------------------------------------------
(* Properties of the terminal step and of failed requests in the loop *)

ReturnedNormally == pc = "done" /\ result.kind \in {"string", "object"}

\* C11 as stated: whenever a structured-output call (a schema is supplied)
\* returns normally, what it returns is an object that passed validation;
\* a failed final validation is raised as InferError with the raw text.
C11_SchemaReturnsValidated ==
    (args.schema /\ ReturnedNormally) => (result.kind = "object" /\ resp.valid)

\* the call ended in the terminal step: a round with a response and
\* without executed tool calls, which was not the empty-response return
FinalStepReached ==
    /\ pc = "done"
    /\ resp.received
    /\ IF requiresNativeInference(args.provider)
       THEN resp.toolCalls = <<>>
       ELSE /\ exec.threw # "abort"
            /\ exec.executed = <<>>
            /\ ~(resp.content = "" /\ resp.toolCalls = <<>> /\ ~args.stream)

\* C11 amended: a structured-output call returns an object only from the
\* terminal step and only when the text passed validation, and a failed
\* validation there is raised as InferError carrying the raw text and the
\* context. (A structured-output call can also return a plain string: the
\* empty result of an empty response, or the text of a round whose tool
\* batch was cancelled or produced no usable result.)
C11_FinalValidation ==
    args.schema
        => /\ (pc = "done" /\ result.kind = "object")
                => (FinalStepReached /\ resp.valid /\ result.text = resp.content)
           /\ FinalStepReached
                => result = IF resp.valid THEN Result("object", resp.content, ctx)
                            ELSE Result("InferError", resp.content, ctx)

\* after a tool round, the second response of a structured-output call
\* had text that failed validation, and the call raised InferError
C11_Witness ==
    /\ args.schema
    /\ ~requiresNativeInference(args.provider)
    /\ netCalls = 2
    /\ FinalStepReached
    /\ resp.content = "text"
    /\ ~resp.valid
    /\ result = Result("InferError", "text", ctx)

\* C12 as stated: a non-streaming round whose response carries no text and
\* no tool calls ends the call with the empty string and the context of the
\* round, without throwing, on the standard and on the native path.
C12_EmptyResponseEnds ==
    (resp.received /\ resp.content = "" /\ resp.toolCalls = <<>> /\ ~args.stream)
        => /\ pc = "done"
           /\ result = Result("string", "", ctx)

\* C17 as stated: a cancellation that fires while the request of a round is
\* in flight ends the call with an AbortError carrying the context of the
\* round, on the standard and on the native path.
C17_AbortInFlight ==
    (pc = "done" /\ failure.abortLike)
        => /\ result.kind = "AbortError"
           /\ result.ctx = ctx

\* C19 as stated: a recursive round is issued with the caller-level
\* parameters of the round before it (model, tools, sink, cancellation
\* handle, runtime overrides); only the context changes.
C19_ArgsPreserved == [][args' = args]_vars

IsOrphan(msgs, i) ==
    /\ msgs[i].role = "tool"
    /\ ~\E j \in 1..(i - 1) :
            /\ msgs[j].role = "assistant"
            /\ msgs[j].hasCalls
            /\ msgs[i].id \in CallIdSet(msgs[j].calls)
            /\ ~\E k \in (j + 1)..(i - 1) : msgs[k].role = "assistant" /\ msgs[k].hasCalls

\* C20 as stated: in a round that starts with a prior context, the request
\* sent upstream holds, after the base conversation, every message of the
\* context that is not an orphaned tool result, on both paths.
C20_ContextTransmitted ==
    (pc \in {"net", "nnet"} /\ ctx.has)
        => \A i \in DOMAIN ctx.messages :
            ~IsOrphan(ctx.messages, i)
                => \E j \in DOMAIN sent :
                    /\ j > args.nmsgs
                    /\ sent[j].role = ctx.messages[i].role
                    /\ sent[j].content = ctx.messages[i].content

----------------------------------------------------------------------------
(* Properties of the classifier *)

Is429 == pc = "classified" /\ ~failure.abortLike /\ errorStatus(failure) = 429

\* the string is a decimal number: digits with at most one point
IsDecimal(str) ==
    /\ \E i \in DOMAIN str : str[i] \in Digits
    /\ \A i \in DOMAIN str : str[i] \in Digits \cup {"."}
    /\ Cardinality({i \in DOMAIN str : str[i] = "."}) <= 1

\* the seconds a header or retryDelay value states; NaN when it states none
SecondsOf(v, suffix) ==
    CASE v.type = "number" -> v.n
      [] v.type = "string" ->
            LET str == IF suffix THEN stripSecondsSuffix(v.str) ELSE v.str
            IN  IF IsDecimal(str) THEN parseFloat(str) ELSE NaN
      [] OTHER -> NaN

IsPositive(x) == ~x.nan /\ x.num > 0

\* C13 as stated: a 429 whose Retry-After header holds a positive number
\* of seconds s is classified as RateLimited with delay ceil(s * 1000) ms,
\* on the standard and on the native path.
C13_RetryAfterHeader ==
    (Is429 /\ IsPositive(SecondsOf(failure.header, FALSE)))
        => /\ result.kind = "RateLimitExceededError"
           /\ result.retryDelayMs = ceilMs(SecondsOf(failure.header, FALSE))

\* C14 as stated: a 429 without Retry-After header whose body carries a
\* RetryInfo delay of s > 0 seconds (a number, or a string with an s
\* suffix) is classified as RateLimited with delay ceil(s * 1000) ms.
C14_RetryInfoBody ==
    (/\ Is429
     /\ failure.header.type = "undefined"
     /\ failure.body.json
     /\ IsPositive(SecondsOf(failure.body.retryDelay, TRUE)))
        => /\ result.kind = "RateLimitExceededError"
           /\ result.retryDelayMs = ceilMs(SecondsOf(failure.body.retryDelay, TRUE))

ProviderDefaultMs == IF requiresNativeInference(args.provider) THEN 34000 ELSE 60000

\* the delay by the stated priority: header, then RetryInfo, then default
ExpectedDelayMs ==
    IF IsPositive(SecondsOf(failure.header, FALSE))
    THEN ceilMs(SecondsOf(failure.header, FALSE))
    ELSE IF failure.body.json /\ IsPositive(SecondsOf(failure.body.retryDelay, TRUE))
    THEN ceilMs(SecondsOf(failure.body.retryDelay, TRUE))
    ELSE ProviderDefaultMs

\* C15 as stated: the delay of a 429 classification is the header's, else
\* the RetryInfo delay of the body, else the provider default, the default
\* being used exactly when neither source gives a positive number; the
\* delay is a positive whole number of milliseconds.
C15_DelayPriority ==
    Is429 => /\ result.kind = "RateLimitExceededError"
             /\ result.retryDelayMs = ExpectedDelayMs
             /\ result.retryDelayMs > 0

----------------------------------------------------------------------------
(* Properties of template selection *)

\* C18 as stated: a RateLimitExceededError or SecurityError thrown by an
\* inference call of selectTemplate is re-thrown by selectTemplate in the
\* attempt in which it occurred, without another attempt or call.
C18_NoLocalRetry ==
    sel.thrown \in {"RateLimitExceededError", "SecurityError"}
        => /\ sel.pc = "done"
           /\ sel.outcome = sel.thrown

----------------------------------------------------------------------------
(* Properties of the sanitizer's frame *)

\* C21 as stated: building the request never changes the caller's objects:
\* the messages of the prior context, each assistant message's tool calls
\* included, are after the sanitizer what they were before it.
C21_SanitizerLeavesContext ==
    [][(pc = "infer" /\ pc' = "net") => ctx'.messages = ctx.messages]_vars

----------------------------------------------------------------------------
(* Properties of the credential and base-URL resolution *)

ValidRuntimeKey == IsTruthy(cfg.runtimeKey) /\ isValidApiKey(cfg.runtimeKey)

ConfigReturned == cfg.pc = "resolved" /\ cfg.out.threw = "none"

\* the routing that returns a provider's own endpoint
DirectRouting == cfg.directOverride /\ cfg.provider \in DirectProviders

\* C22 as stated: the credential returned is the valid runtime override key
\* of the provider, else the provider's environment credential, else the
\* gateway token, in every routing mode, direct routing included.
C22_CredentialOrder ==
    ConfigReturned
        => cfg.out.apiKey = IF ValidRuntimeKey THEN cfg.runtimeKey
                            ELSE IF isValidApiKey(cfg.envKey) THEN cfg.envKey
                            ELSE gatewayToken(cfg)

OverrideUrlGiven == cfg.gatewayOverride.has /\ cfg.gatewayOverride.baseUrl # <<>>

OverrideUrlMalformed == OverrideUrlGiven /\ ~urlParses(cfg.gatewayOverride.baseUrl)

EnvUrlMalformed ==
    /\ envGatewayUrlSet(cfg.envGatewayUrl)
    /\ ~urlParses(cfg.envGatewayUrl.str)

\* C24 as stated: a malformed gateway URL, given per request or by the
\* environment, never makes the resolution of the base URL raise; the
\* malformed value is bypassed and the base URL is the one the resolution
\* yields without it.
C24_MalformedUrlNotFatal ==
    (cfg.pc = "resolved" /\ ~DirectRouting /\ (OverrideUrlMalformed \/ EnvUrlMalformed))
        => /\ cfg.out.threw # "TypeError"
           /\ cfg.out.threw = "none"
                => cfg.out.baseURL =
                     LET withoutOverride ==
                            IF OverrideUrlMalformed
                            THEN [cfg EXCEPT !.gatewayOverride.baseUrl = <<>>]
                            ELSE cfg
                         bypassed ==
                            IF EnvUrlMalformed
                            THEN [withoutOverride EXCEPT !.envGatewayUrl = Undefined]
                            ELSE withoutOverride
                     IN  buildGatewayUrl(bypassed,
                                         IF cfg.directOverride THEN cfg.provider ELSE "").url

----------------------------------------------------------------------------
(* Properties of the chunk callback *)

RECURSIVE Concat(_)
Concat(seqs) == IF seqs = <<>> THEN <<>> ELSE Head(seqs) \o Concat(Tail(seqs))

IsPrefix(p, full) == Len(p) <= Len(full) /\ SubSeq(full, 1, Len(p)) = p

\* C25: after any prefix of the stream the chunks handed to onChunk so far,
\* put end to end, are a prefix of the accumulated text: the sent text up
\* to streamIndex, no character twice and never the whole buffer again.
C25_SinkReceivesNewText ==
    sink.pc \in {"streaming", "ended"}
        => /\ IsPrefix(Concat(sink.chunks), sink.content)
           /\ Len(Concat(sink.chunks)) = sink.streamIndex

\* two non-empty chunks were handed over, the first one short of the text
\* accumulated when the second one went out
C25_Witness ==
    /\ sink.pc = "streaming"
    /\ Len(sink.chunks) >= 2
    /\ sink.chunks[1] # <<>>
    /\ sink.chunks[2] # <<>>
    /\ Len(sink.content) > Len(Concat(sink.chunks))

----------------------------------------------------------------------------
(* Properties of the blueprint repair *)

\* C26: repairing a repaired structure changes nothing:
\* repair(repair(x)) = repair(x) for every x.
C26_RepairIdempotent ==
    bp.pc = "twice" => bp.twice = bp.once

\* a structure the first pass changed went through the second pass
C26_Witness ==
    /\ bp.pc = "twice"
    /\ bp.once # bp.raw
    /\ bp.twice = bp.once

KeysOf(obj) == [i \in DOMAIN obj.items |-> obj.items[i].k]

\* arr holds one item per entry of map, in the order of map's keys; an
\* entry object without idKey got the key as idKey, put first, and one with
\* idKey kept its own value and its keys
RepairedEntries(idKey, map, arr) ==
    /\ arr.t = "array"
    /\ Len(arr.items) = Len(map.items)
    /\ \A i \in DOMAIN map.items :
        LET key == map.items[i].k
            value == map.items[i].v
            item == arr.items[i]
        IN  IF isPlainObject(value)
            THEN /\ isPlainObject(item)
                 /\ IF hasKey(value, idKey)
                    THEN /\ KeysOf(item) = KeysOf(value)
                         /\ getKey(item, idKey) = getKey(value, idKey)
                    ELSE /\ KeysOf(item) = <<idKey>> \o KeysOf(value)
                         /\ getKey(item, idKey) = JString(key)
            ELSE item.t = value.t

HoldsMap(obj, field) ==
    /\ isPlainObject(obj)
    /\ hasKey(obj, field)
    /\ isPlainObject(getKey(obj, field))

\* C27: views, implementationRoadmap and initialPhase.files holding an
\* object map come out as arrays with one item per entry in key order, the
\* map key injected as name, phase or path exactly into the entry objects
\* that lack that field.
C27_KeyInjection ==
    bp.pc \in {"once", "twice"}
        => /\ HoldsMap(bp.raw, "views")
                => RepairedEntries("name", getKey(bp.raw, "views"), getKey(bp.once, "views"))
           /\ HoldsMap(bp.raw, "implementationRoadmap")
                => RepairedEntries("phase", getKey(bp.raw, "implementationRoadmap"),
                                   getKey(bp.once, "implementationRoadmap"))
           /\ (HoldsMap(bp.raw, "initialPhase") /\ HoldsMap(getKey(bp.raw, "initialPhase"), "files"))
                => RepairedEntries("path", getKey(getKey(bp.raw, "initialPhase"), "files"),
                                   getKey(getKey(bp.once, "initialPhase"), "files"))

\* a map of files whose first entry lacks a path and whose second has one
C27_Witness ==
    /\ bp.pc = "once"
    /\ HoldsMap(bp.raw, "initialPhase")
    /\ HoldsMap(getKey(bp.raw, "initialPhase"), "files")
    /\ LET files == getKey(getKey(bp.raw, "initialPhase"), "files") IN
        /\ Len(files.items) = 2
        /\ files.items[1].v = PlainEntry
        /\ files.items[2].v = NamedEntry
    /\ getKey(getKey(bp.once, "initialPhase"), "files").items[1]
            = withKeyFirst("path", "Main", PlainEntry)

----------------------------------------------------------------------------
(* Properties of the accumulator: re-keying, argument cutoff, ordering *)

\* a fragment was consumed by this step
FragmentConsumed == pc = "stream" /\ Len(frags') = Len(frags) + 1

LastDelta == frags'[Len(frags')].delta
LastEntry == frags'[Len(frags')].entry

\* the fragment carries an id no entry is keyed by and an index an entry
\* is registered at
FoundByIndexWithNewId(d) ==
    /\ d.id # ""
    /\ d.id \notin DOMAIN byId
    /\ d.hasIndex
    /\ d.index \in DOMAIN byIndex

C28_RekeyStep ==
    [][(FragmentConsumed /\ FoundByIndexWithNewId(LastDelta))
        => LET d == LastDelta
               e == LastEntry
               old == entries[byIndex[d.index]]
           IN  /\ e = byIndex[d.index]
               /\ old.id # d.id
               /\ Len(entries') = Len(entries)
               /\ old.id \notin DOMAIN byId'
               /\ d.id \in DOMAIN byId'
               /\ byId'[d.id] = e
               /\ byIndex'[d.index] = e
               /\ entries'[e].id = d.id
               /\ entries'[e].name = (IF d.name # "" THEN d.name ELSE old.name)
               /\ IsPrefix(old.arguments, entries'[e].arguments)]_vars

\* index 0 without id names the function, then id a brings the arguments
\* in two chunks
RekeyExample ==
    << Fragment(TRUE, 0, "", "search", FALSE, <<>>),
       Fragment(TRUE, 0, "a", "", TRUE, <<"[">>),
       Fragment(TRUE, 0, "a", "", TRUE, <<"]">>) >>

Deltas == [i \in DOMAIN frags |-> frags[i].delta]

C28_Example ==
    (pc = "assembled" /\ Deltas = RekeyExample)
        => assembled = <<[id |-> "a", name |-> "search", arguments |-> <<"[", "]">>]>>

\* C28: a fragment that brings an id for an entry found by index under
\* another id re-keys it: the id map loses the old key and holds the entry
\* under the new id, the entry stays the one registered at its index and
\* keeps its name and arguments; the three fragments of the example yield
\* one request with id a, the name and the concatenated arguments.
C28_Rekeying == C28_RekeyStep /\ []C28_Example

C28_Witness ==
    /\ pc = "assembled"
    /\ Deltas = RekeyExample
    /\ Len(assembled) = 1
    /\ assembled[1].id = "a"
    /\ DOMAIN byId = {"a"}

\* C29: an argument fragment for an entry whose arguments are non-empty
\* and parse as JSON leaves them unchanged; otherwise it is appended at
\* the end; no fragment touches the arguments of another entry.
C29_ArgumentCutoff ==
    [][FragmentConsumed
        => LET d == LastDelta
               e == LastEntry
               before == IF e \in DOMAIN entries THEN entries[e].arguments ELSE <<>>
           IN  /\ entries'[e].arguments =
                    (IF ~d.hasArgs THEN before
                     ELSE IF before # <<>> /\ IsJSON(before) THEN before
                     ELSE before \o d.arguments)
               /\ \A k \in DOMAIN entries :
                    k # e => entries'[k].arguments = entries[k].arguments]_vars

\* three argument fragments went to one entry and the third was dropped
C29_Witness ==
    /\ Len(frags) = 3
    /\ \A i \in DOMAIN frags : frags[i].delta.hasArgs /\ frags[i].entry = frags[1].entry
    /\ entries[frags[1].entry].arguments = <<"[", "]">>
    /\ frags[3].delta.arguments = <<"[">>

AnyIndex == \E i \in DOMAIN frags : frags[i].delta.hasIndex

\* the entry a request of the assembled list was made from
EntryOfRequest(request) == entries[CHOOSE e \in DOMAIN entries : entries[e].id = request.id]

ToolMessagesOf(context) == SelectSeq(context.messages, LAMBDA m : m.role = "tool")

\* C30: the assembled list is in ascending order of index when a fragment
\* carried an index, else in first-seen order; the tool messages appended
\* to the context are in the order of the executed results.
C30_Ordering ==
    /\ pc = "assembled"
        => \A i, j \in DOMAIN assembled :
            i < j => IF AnyIndex
                     THEN /\ EntryOfRequest(assembled[i]).hasIndex
                          /\ EntryOfRequest(assembled[j]).hasIndex
                          /\ EntryOfRequest(assembled[i]).index
                                < EntryOfRequest(assembled[j]).index
                     ELSE EntryOfRequest(assembled[i]).order
                                < EntryOfRequest(assembled[j]).order
    /\ pc = "executed"
        => LET named == SelectSeq(exec.executed, LAMBDA r : r.name # "")
               msgs == ToolMessagesOf(ctx)
           IN  /\ Len(msgs) = Len(named)
               /\ \A i \in DOMAIN msgs :
                    /\ msgs[i].id = named[i].id
                    /\ msgs[i].name = named[i].name

\* two calls assembled by index against their first-seen order, executed,
\* and their two tool messages appended
C30_Witness ==
    /\ pc = "executed"
    /\ Len(assembled) = 2
    /\ assembled[1].id = synthIdForIndex(1)
    /\ assembled[2].id = synthIdForIndex(0)
    /\ Len(ToolMessagesOf(ctx)) = 2
    /\ ToolMessagesOf(ctx)[1].id = assembled[1].id

----------------------------------------------------------------------------
(* Properties of a tool round *)

AllNamed(calls) == \A i \in DOMAIN calls : calls[i].name # ""

\* C31 as stated: a tool call without a name is dropped whatever the kind
\* of response: it is not among the calls handed to tool execution and put
\* into the assistant message, and no tool message of the context bears an
\* empty name.
C31_NamelessDropped ==
    /\ resp.received => AllNamed(resp.toolCalls)
    /\ AllNamed(exec.completed)
    /\ \A i \in DOMAIN ctx.messages :
        /\ ctx.messages[i].role = "assistant" => AllNamed(ctx.messages[i].calls)
        /\ ctx.messages[i].role = "tool" => ctx.messages[i].name # ""

\* the tool message the context update owes to one executed result
OwedToolMessage(r) ==
    Message("tool", IF r.result = "undefined" THEN "done" ELSE "json", FALSE, <<>>,
            r.name, r.id, FALSE)

\* C32 as stated: a tool round that executed results appends to the context
\* exactly the assistant message with all the tool calls it issued and then
\* one tool message per executed result, none left out, with the result's
\* id and name and its serialized value, "done" only for a missing value.
C32_ContextUpdate ==
    [][(pc \in {"tools", "ntools"} /\ exec'.threw = "none" /\ exec'.executed # <<>>)
        => exec'.newCtx.messages =
            ctx.messages \o <<AssistantMessage(resp.content, resp.toolCalls)>>
                \o [i \in DOMAIN exec'.executed |-> OwedToolMessage(exec'.executed[i])]]_vars

----------------------------------------------------------------------------
(* Properties of the context across the recursion *)

ChainDerives == chain.pc = "respond" /\ chain'.pc = "entry"

\* C33: the step into the recursion hands over a new context, one deeper,
\* whose messages start with the previous messages; and the previous
\* context (depth, message list, contents of the messages) stays what it
\* was through every later step of the recursive call, until that call
\* derives its own next context from a list that begins with it.
C33_ContextDerived ==
    /\ [][ChainDerives
            => /\ chain'.toolCallContext.depth = chain.toolCallContext.depth + 1
               /\ Len(chain'.toolCallContext.messages) > Len(chain.toolCallContext.messages)
               /\ IsPrefix(chain.toolCallContext.messages, chain'.toolCallContext.messages)
               /\ chain'.previous = chain.toolCallContext]_vars
    /\ [][~ChainDerives => chain'.previous = chain.previous]_vars
    /\ [](chain.pc # "idle" /\ chain.previous.has
            => IsPrefix(chain.previous.messages, chain.toolCallContext.messages))

\* a second recursive round whose sanitizer edited the assistant message of
\* the derived context in place, next to a previous context with messages
C33_Witness ==
    /\ chain.pc = "respond"
    /\ chain.rounds = 2
    /\ chain.previous.has
    /\ chain.previous.messages # <<>>
    /\ LET m == chain.toolCallContext.messages[Len(chain.previous.messages) + 1]
       IN  m.role = "assistant" /\ ~m.hasCalls

----------------------------------------------------------------------------
(* Properties of the rate-limit bookkeeping *)

\* C34 as stated: every round that sends an upstream request, on the
\* standard path or on the native one, has called the rate-limit
\* enforcement before the request leaves.
C34_RateLimitBeforeRequest ==
    [][netCalls' = netCalls + 1 => limitCalls' = limitCalls + 1]_vars

----------------------------------------------------------------------------
(* Properties of the end of a streamed response *)

\* C35 as stated: when a streamed response has ended, the chunks handed to
\* onChunk, put end to end, are the complete text of the response: no
\* received text is left unsent.
C35_AllTextFlushed ==
    sink.pc = "ended" => Concat(sink.chunks) = sink.content

----------------------------------------------------------------------------
(* Properties of the compliance deadline *)

DeadlineReturned == comp.pc = "returned" /\ comp.timer = "fired"

\* C36 as stated: once the deadline timer has fired and ensureCompliance
\* has returned its fallback, the inference it started is cancelled and
\* sends no further request and runs no further tool.
C36_DeadlineCancels ==
    /\ [](DeadlineReturned /\ comp.inference = "running" => comp.cancelled)
    /\ [][DeadlineReturned => comp'.requests = comp.requests]_vars

----------------------------------------------------------------------------
(* Properties of the assembled list and of the lookup maps *)

\* how often the request of entry e occurs in a list of requests
Occurrences(requests, e) ==
    Cardinality({ i \in DOMAIN requests : requests[i] = Request(entries[e]) })

\* the entries that end the stream as the same request as entry e
Twins(e) == { f \in DOMAIN entries : Request(entries[f]) = Request(entries[e]) }

\* C37 as stated: every entry that ends the stream with a name is in the
\* assembled list exactly once, whether its fragments carried an index or
\* not.
C37_NoNamedCallLost ==
    pc = "assembled"
        => \A e \in DOMAIN entries :
            entries[e].name # ""
                => Occurrences(assembled, e) = Cardinality(Twins(e))

\* C40: after any sequence of fragments every key of the id map leads to
\* an entry with that id, every key of the index map leads to an entry with
\* that index, and every entry of the index map is in the id map too.
C40_MapsConsistent ==
    /\ \A k \in DOMAIN byId : entries[byId[k]].id = k
    /\ \A i \in DOMAIN byIndex :
        /\ entries[byIndex[i]].hasIndex
        /\ entries[byIndex[i]].index = i
        /\ byIndex[i] \in Range(byId)

\* an entry created without an index took the index under which another
\* entry, created under a synthetic id, had been registered
C40_Witness ==
    /\ pc = "stream"
    /\ Len(entries) = 2
    /\ entries[1].id = synthIdForIndex(0)
    /\ entries[2].id \in FragmentIds
    /\ entries[1].hasIndex
    /\ entries[2].hasIndex
    /\ entries[1].index = entries[2].index
    /\ DOMAIN byIndex = {entries[2].index}
    /\ byIndex[entries[2].index] = 2
    /\ DOMAIN byId = {entries[1].id, entries[2].id}

----------------------------------------------------------------------------
(* Properties of the transmitted message list *)

\* the position of the next assistant message after i, or one past the end
RECURSIVE NextAssistant(_, _)
NextAssistant(msgs, i) ==
    IF i >= Len(msgs) THEN Len(msgs) + 1
    ELSE IF msgs[i + 1].role = "assistant" THEN i + 1
    ELSE NextAssistant(msgs, i + 1)

\* every tool call of the assistant message at i has its tool message
\* before the next assistant message
CallsAnswered(msgs, i) ==
    \A c \in DOMAIN msgs[i].calls :
        \E j \in (i + 1)..(NextAssistant(msgs, i) - 1) :
            /\ msgs[j].role = "tool"
            /\ msgs[j].id = msgs[i].calls[c].id

\* C38 as stated: in the message list a recursive round sends upstream no
\* tool call of an assistant message is left without its tool message.
C38_NoDanglingCall ==
    (pc = "net" /\ netCalls >= 2)
        => \A i \in DOMAIN sent :
            (sent[i].role = "assistant" /\ sent[i].hasCalls) => CallsAnswered(sent, i)

----------------------------------------------------------------------------
(* Properties of the retries of selectTemplate *)

SelStage ==
    CASE sel.pc = "intent" -> 6
      [] sel.pc = "ptype" -> 5
      [] sel.pc = "filter" -> 4
      [] sel.pc = "analyze" -> 3
      [] sel.pc = "judge" -> 2
      [] sel.pc = "final" -> 1
      [] OTHER -> 0

SelVariant == IF sel.pc = "done" THEN 0 ELSE 7 * sel.retryCount + SelStage

\* the retryCount the caller started selectTemplate with
StartRetryCount == sel.attempts + sel.retryCount - 1

Retries == sel'.attempts > sel.attempts

\* an attempt ends in its catch clause with an error it does not rethrow
AttemptFails ==
    /\ sel.pc \in {"intent", "analyze", "judge", "final"}
    /\ sel'.thrown \in {"Error", "SyntaxError"}

\* C39: selectTemplate terminates, every step decreasing a natural-number
\* measure and an unfinished call being able to step; started with
\* retryCount n it makes at most n + 1 attempts; it starts a further attempt
\* only after a failure that is neither a rate-limit nor a security error;
\* and the failure of the last attempt ends in the fallback selection, with
\* selectedTemplateName null, not in a thrown error.
C39_BoundedRetries ==
    /\ [][SelVariant' < SelVariant]_vars
    /\ [](sel.pc \notin {"idle", "done"} => ENABLED SelNext)
    /\ [][StartRetryCount' = StartRetryCount]_vars
    /\ [](sel.pc # "idle" => sel.retryCount >= 0 /\ sel.attempts <= StartRetryCount + 1)
    /\ [][Retries => AttemptFails /\ sel'.attempts = sel.attempts + 1]_vars
    /\ [][(AttemptFails /\ sel.retryCount = 0)
            => sel'.pc = "done" /\ sel'.outcome = "failed"]_vars

\* a call started with the largest retryCount whose every attempt failed
C39_Witness ==
    /\ sel.pc = "done"
    /\ sel.outcome = "failed"
    /\ sel.retryCount = 0
    /\ sel.attempts = MaxRetryCount + 1
    /\ sel.thrown = "SyntaxError"

====
